---- MODULE Spec2Model ----
(***************************************************************************)
(* rawcompr: a compression pass (demux -> encoders -> muxer + packet       *)
(* reference table -> LLR writer) followed by a decompression pass (LLR    *)
(* reader -> decoders -> positioned writes -> hash verification).          *)
(*                                                                         *)
(* Files are byte sequences; offset x of a file is element x + 1.          *)
(***************************************************************************)
EXTENDS Integers, Sequences, FiniteSets, TLC

\* ------------------------------------------------------------------ bounds

MaxFileSize == 3

MaxPackets == 2

MaxSize == 2

\* longest list of pixel formats an encoder advertises
MaxCandidates == 2

\* largest max_packet_size of the output file's AVIOContext
MaxChunk == 2

\* longest buffer handed to a writeInChunks call run on its own
MaxBuf == 4

\* most words on a command line, the program name aside
MaxArgs == 4

\* ------------------------------------------------------- program constants

Copy == 1

Video == 2

LLR_BUFFER_SIZE == 4096

\* MKBETAG('L', 'L', 'R', '\0') as the four bytes avio_wb32 emits
LLR_MAGIC_SIGNATURE == <<76, 76, 82, 0>>

\* streams of the input container: only the codec kind matters to compress()
\* ("rawvideo" gets a VideoEncoder, anything else a CopyEncoder)
StreamLayouts == { <<"pcm">>, <<"rawvideo", "pcm">> }

\* av_get_pix_fmt_name of the raw stream's pixel format: "yuv"
PixFmtName == <<121, 117, 118>>

AV_PIX_FMT_NONE == "none"

\* the pixel formats of the model: planar and semi-planar 4:2:0, 4:4:4, gray
PixFmts == {"yuv", "nv12", "yuv444", "gray"}

\* av_get_pix_fmt_name, as a C string
av_get_pix_fmt_name(f) ==
    IF f = "yuv" THEN PixFmtName
    ELSE IF f = "nv12" THEN <<110, 118>>
    ELSE IF f = "yuv444" THEN <<121, 52>>
    ELSE <<103, 114>>

\* av_pix_fmt_desc_get: what av_get_pix_fmt_loss compares
PixDesc(f) ==
    IF f \in {"yuv", "nv12"} THEN [chroma |-> TRUE, subsampled |-> TRUE]
    ELSE IF f = "yuv444" THEN [chroma |-> TRUE, subsampled |-> FALSE]
    ELSE [chroma |-> FALSE, subsampled |-> FALSE]

\* av_get_pix_fmt_loss(dst, src, has_alpha): the FF_LOSS_* flags of a
\* conversion from src to dst, as a set (0 is the empty set)
av_get_pix_fmt_loss(dst, src, has_alpha) ==
    (IF PixDesc(src).chroma /\ ~PixDesc(dst).chroma THEN {"FF_LOSS_CHROMA"} ELSE {})
    \cup (IF PixDesc(src).chroma /\ PixDesc(dst).subsampled /\ ~PixDesc(src).subsampled
          THEN {"FF_LOSS_RESOLUTION"} ELSE {})

\* the lists an encoder can advertise in AVCodec::pix_fmts: a null pointer,
\* or formats up to the terminating AV_PIX_FMT_NONE
RECURSIVE SeqsUpTo(_, _)
SeqsUpTo(S, n) ==
    IF n = 0 THEN {<<>>}
    ELSE LET shorter == SeqsUpTo(S, n - 1)
         IN  shorter \cup {Append(q, x) : q \in shorter, x \in S}

CandidateLists ==
    {[null |-> TRUE, list |-> <<>>]}
    \cup {[null |-> FALSE, list |-> q] : q \in SeqsUpTo(PixFmts, MaxCandidates)}

\* the for loop of selectCompatibleLosslessPixelFormat over the candidates
RECURSIVE SelectLoop(_, _, _)
SelectLoop(src, list, result) ==
    IF list = <<>> THEN result
    ELSE LET losses == av_get_pix_fmt_loss(Head(list), src, FALSE)
             lossesInv == av_get_pix_fmt_loss(src, Head(list), TRUE)
         IN  SelectLoop(src, Tail(list),
                        IF losses = {} /\ lossesInv = {} THEN Head(list) ELSE result)

selectCompatibleLosslessPixelFormat_ForwardOnly(src, candidates) ==
    LET ok == {i \in 1..Len(candidates.list) :
                  av_get_pix_fmt_loss(candidates.list[i], src, FALSE) = {}}
    IN  IF ok = {} THEN AV_PIX_FMT_NONE
        ELSE candidates.list[CHOOSE i \in ok : \A j \in ok : j <= i]

\* selectCompatibleLosslessPixelFormat: the format returned, or
\* AV_PIX_FMT_NONE when it ends in logError
selectCompatibleLosslessPixelFormat(src, candidates) ==
    IF candidates.null THEN AV_PIX_FMT_NONE
    ELSE SelectLoop(src, candidates.list, AV_PIX_FMT_NONE)

\* hash algorithms the command line accepts, as C strings
MD5 == <<77, 68, 53>>

CRC32 == <<67, 82, 67, 51, 50>>

HashNames == { MD5, CRC32 }

\* -------------------------------------------------------------- utilities

Min(a, b) == IF a < b THEN a ELSE b

Max(a, b) == IF a > b THEN a ELSE b

SetMin(S) == CHOOSE x \in S : \A y \in S : x <= y

RECURSIVE SortedSeq(_)
SortedSeq(S) == IF S = {} THEN <<>>
                ELSE LET m == SetMin(S) IN <<m>> \o SortedSeq(S \ {m})

RECURSIVE SumSeq(_)
SumSeq(s) == IF s = <<>> THEN 0 ELSE Head(s) + SumSeq(Tail(s))

Zeros(n) == [i \in 1..n |-> 0]

\* bytes [from, to) of a file
Slice(file, from, to) == [i \in 1..(to - from) |-> file[from + i]]

\* positioned write: the file after writing bytes at offset pos (a seek past
\* the end leaves a hole that reads as zeros)
WriteAt(file, pos, bytes) ==
    LET n == Max(Len(file), pos + Len(bytes))
    IN  IF bytes = <<>> THEN file
        ELSE [i \in 1..n |-> IF i > pos /\ i <= pos + Len(bytes) THEN bytes[i - pos]
                             ELSE IF i <= Len(file) THEN file[i] ELSE 0]

\* --------------------------------------------------------- input container

\* content of the original file: the byte at offset x
ByteAt(x) == x + 1

OrigFile(n) == [i \in 1..n |-> ByteAt(i - 1)]

\* payload the demuxer hands out for a packet reported at [pos, pos + size)
PacketData(pos, size) == [i \in 1..size |-> ByteAt(pos + i - 1)]

\* presentation timestamp the demuxer reports for the packet at pos, on the
\* input stream's time base: the container is laid out in presentation order
PacketPts(pos) == pos

\* ------------------------------------------------- packet reference table

\* std::map iteration order: ascending origPos
TableKeys(table) == SortedSeq(DOMAIN table)

addPacketReference_CountsRows(table, streamIndex, packetIndex, pts, origPos, origSize) ==
    LET info == [origSize |-> origSize, streamIndex |-> streamIndex,
                 packetIndex |-> Cardinality(DOMAIN table), pts |-> pts]
        inserted == origPos \notin DOMAIN table
        after == IF inserted THEN (origPos :> info) @@ table ELSE table
        higher == {k \in DOMAIN after : k > origPos}
    IN  [halt |-> \/ ~inserted
                  \/ (higher # {} /\ SetMin(higher) < origPos + origSize),
         table |-> after]

addPacketReference_InclusiveEnd(table, streamIndex, packetIndex, pts, origPos, origSize) ==
    LET info == [origSize |-> origSize, streamIndex |-> streamIndex,
                 packetIndex |-> packetIndex, pts |-> pts]
        inserted == origPos \notin DOMAIN table
        after == IF inserted THEN (origPos :> info) @@ table ELSE table
        higher == {k \in DOMAIN after : k > origPos}
    IN  [halt |-> \/ ~inserted
                  \/ (higher # {} /\ SetMin(higher) <= origPos + origSize),
         table |-> after]

\* PacketReferences::addPacketReference: halt is the bug_halt exit
addPacketReference(table, streamIndex, packetIndex, pts, origPos, origSize) ==
    LET info == [origSize |-> origSize, streamIndex |-> streamIndex,
                 packetIndex |-> packetIndex, pts |-> pts]
        inserted == origPos \notin DOMAIN table
        after == IF inserted THEN (origPos :> info) @@ table ELSE table
        \* ++it: the entry with the next higher key, if any
        higher == {k \in DOMAIN after : k > origPos}
    IN  [halt |-> \/ ~inserted
                  \/ (higher # {} /\ SetMin(higher) < origPos + origSize),
         table |-> after]

\* -------------------------------------------------------------- encoders

\* av_packet_rescale_ts from the input stream's time base (1/2) to the output
\* stream's (1/1), rounding to nearest with halves away from zero
Rescale(pts) == (pts + 1) \div 2

\* the lossless codec pair: the encoder's payload for a raw frame ...
EncodeVideo(data) == [i \in 1..Len(data) |-> (data[Len(data) + 1 - i] + 100) % 256]

\* ... and the raw frame the decoder yields for it
DecodeVideo(data) == [i \in 1..Len(data) |-> (data[Len(data) + 1 - i] + 156) % 256]

\* ------------------------------------------------------------ byte-level I/O

\* byte k (0 = least significant) of x written as a two's complement integer;
\* every value of the model fits in 32 bits, so bytes 4..7 are the sign
ByteOf(x, k) == IF k = 0 THEN x % 256
                ELSE IF k = 1 THEN (x \div 256) % 256
                ELSE IF k = 2 THEN (x \div 65536) % 256
                ELSE IF k = 3 THEN (x \div 16777216) % 256
                ELSE IF x < 0 THEN 255 ELSE 0

\* avio_wb16 / avio_wb32 / avio_wb64: n bytes, big-endian
avio_wb(n, x) == [i \in 1..n |-> ByteOf(x, n - i)]

avio_w8(x) == <<x % 256>>

\* avio_put_str: the characters and a terminating NUL
avio_put_str(str) == str \o <<0>>

\* avio_r8: the byte at offset pos, 0 at end of file
avio_r8(file, pos) == IF pos < Len(file) THEN file[pos + 1] ELSE 0

\* avio_rb16 / avio_rb32 / avio_rb64 at offset pos
RECURSIVE avio_rb(_, _, _)
avio_rb(n, file, pos) ==
    IF n = 0 THEN 0
    ELSE avio_rb(n - 1, file, pos) * 256 + avio_r8(file, pos + n - 1)

\* outcomes of avio_read_partial(file, buffer, want) with the file at offset
\* pos: a negative size is an error; at end of file 0 or AVERROR_EOF; else
\* any count from 1 to what was asked for and is left
avio_read_partial(size, pos, want) ==
    IF want < 0 THEN {-1}
    ELSE IF pos >= size THEN {0, -1}
    ELSE 1..Min(want, size - pos)

\* ------------------------------------------------------------------ hashing

\* av_hash_get_size
av_hash_get_size(name) == IF name = MD5 THEN 2 ELSE 1

\* av_hash_final over the bytes fed to av_hash_update so far
av_hash_final(name, fed) ==
    LET w == SumSeq([i \in 1..Len(fed) |-> i * fed[i]])
    IN  IF name = MD5 THEN <<(w + Len(fed)) % 256, (3 * w + 1) % 256>>
        ELSE <<(w + 7 * Len(fed)) % 256>>

\* ------------------------------------------------------------ serialization

RECURSIVE SerializeStreams(_)
SerializeStreams(streams) ==
    IF streams = <<>> THEN <<>>
    ELSE LET e == Head(streams)
         IN  avio_w8(e.type)
             \o (IF e.type = Video THEN avio_put_str(e.pixelFormat) ELSE <<>>)
             \o SerializeStreams(Tail(streams))

RECURSIVE SerializeRows(_, _)
SerializeRows(table, keys) ==
    IF keys = <<>> THEN <<>>
    ELSE LET origPos == Head(keys)
             e == table[origPos]
         IN  avio_wb(8, origPos) \o avio_wb(4, e.origSize) \o avio_wb(4, e.streamIndex)
             \o avio_wb(8, e.packetIndex) \o avio_wb(8, e.pts)
             \o SerializeRows(table, Tail(keys))

RECURSIVE Reversed(_)
Reversed(s) == IF s = <<>> THEN <<>> ELSE Append(Reversed(Tail(s)), Head(s))

serialize_Descending(streams, table) ==
    avio_wb(4, Len(streams)) \o SerializeStreams(streams)
    \o avio_wb(8, Cardinality(DOMAIN table))
    \o SerializeRows(table, Reversed(TableKeys(table)))

\* PacketReferences::serialize
serialize(streams, table) ==
    avio_wb(4, Len(streams)) \o SerializeStreams(streams)
    \o avio_wb(8, Cardinality(DOMAIN table)) \o SerializeRows(table, TableKeys(table))

\* avio_read into a zero-initialized buffer of n bytes
ReadBytes(file, pos, n) == [i \in 1..n |-> avio_r8(file, pos + i - 1)]

\* avio_get_str(src, maxlen, buf, buflen) at offset pos: the string left in
\* buf and the number of bytes consumed
\* the bytes its loops read from index i on: up to the first NUL and that NUL,
\* maxlen at most
GetStrScan(file, pos, maxlen, i) ==
    LET nul == {k \in i..(maxlen - 1) : avio_r8(file, pos + k) = 0}
    IN  IF i >= maxlen THEN i
        ELSE IF nul = {} THEN maxlen
        ELSE SetMin(nul) + 1

avio_get_str(file, pos, maxlen, buflen) ==
    LET used == GetStrScan(file, pos, maxlen, 0)
        \* characters before the NUL (or before the scan gave up)
        chars == IF used > 0 /\ avio_r8(file, pos + used - 1) = 0 THEN used - 1 ELSE used
        kept == Min(chars, Min(buflen - 1, maxlen))
    IN  [str |-> ReadBytes(file, pos, kept), used |-> used]

IsCopyType_Default(type) == TRUE

\* deserialize's switch (info.type): case Copy, as opposed to default
IsCopyType(type) == type = Copy

\* the while (streamCount-- != 0) loop of deserialize; past the end of the
\* file every avio_r8 returns 0, so the iterations left are all alike
RECURSIVE DeserializeStreams(_, _, _, _)
DeserializeStreams(file, pos, count, acc) ==
    IF count = 0 THEN [abort |-> FALSE, streams |-> acc, pos |-> pos]
    ELSE LET type == avio_r8(file, pos)
         IN  IF pos >= Len(file) /\ type # Video /\ IsCopyType(type)
             THEN [abort |-> FALSE,
                   streams |-> acc \o [i \in 1..count |->
                                          [type |-> Copy, pixelFormat |-> <<>>]],
                   pos |-> pos + count]
             ELSE IF type = Video
             THEN LET g == avio_get_str(file, pos + 1, 127, 128)
                  IN  DeserializeStreams(file, pos + 1 + g.used, count - 1,
                          Append(acc, [type |-> Video, pixelFormat |-> g.str]))
             ELSE IF IsCopyType(type)
             THEN DeserializeStreams(file, pos + 1, count - 1,
                          Append(acc, [type |-> Copy, pixelFormat |-> <<>>]))
             ELSE [abort |-> TRUE, streams |-> acc, pos |-> pos + 1]

\* the while (tableCount-- != 0) loop of deserialize; emplace keeps the
\* first row of a key
RECURSIVE DeserializeRows(_, _, _, _)
DeserializeRows(file, pos, count, acc) ==
    IF count = 0 THEN [table |-> acc, pos |-> pos]
    ELSE LET origPos == avio_rb(8, file, pos)
             info == [origSize |-> avio_rb(4, file, pos + 8),
                      streamIndex |-> avio_rb(4, file, pos + 12),
                      packetIndex |-> avio_rb(8, file, pos + 16),
                      pts |-> avio_rb(8, file, pos + 24)]
         IN  DeserializeRows(file, pos + 32, count - 1,
                 IF origPos \in DOMAIN acc THEN acc ELSE (origPos :> info) @@ acc)

\* PacketReferences::deserialize from offset pos of the LLR file
deserialize(file, pos) ==
    LET s == DeserializeStreams(file, pos + 4, avio_rb(4, file, pos), <<>>)
        t == DeserializeRows(file, s.pos + 8, avio_rb(8, file, s.pos), <<>>)
    IN  IF s.abort THEN [abort |-> TRUE, streams |-> s.streams, table |-> <<>>,
                         pos |-> s.pos]
        ELSE [abort |-> FALSE, streams |-> s.streams, table |-> t.table, pos |-> t.pos]

\* readLLRInfo: the header fields, whether the signature matched, and the
\* offset after the stored hash
readLLRInfo(file) ==
    LET g == avio_get_str(file, 12, 127, 128)
        hashSize == avio_rb(2, file, 12 + g.used)
    IN  [badMagic |-> ReadBytes(file, 0, 4) # LLR_MAGIC_SIGNATURE,
         originalFileSize |-> avio_rb(8, file, 4),
         hashName |-> g.str,
         hashBuffer |-> ReadBytes(file, 12 + g.used + 2, hashSize),
         pos |-> 12 + g.used + 2 + hashSize]

\* the reverse packet mapping decompress() builds from the table: insert
\* keeps the first row (lowest origPos) of a triple
ReverseRefs(table) ==
    LET Key(p) == <<table[p].streamIndex, table[p].packetIndex, table[p].pts>>
        triples == {Key(p) : p \in DOMAIN table}
    IN  [k \in triples |->
            LET p == SetMin({q \in DOMAIN table : Key(q) = k})
            IN  <<p, table[p].origSize>>]

\* av_get_pix_fmt: whether the name is a pixel format
av_get_pix_fmt_known(name) == \E f \in PixFmts : name = av_get_pix_fmt_name(f)

\* ------------------------------------------------------------ command line

\* the words a command line is made of here: every option of the parser, an
\* unknown option, file names with and without the .mkv extension, a hash
\* algorithm, a video codec, a log level and a codec option
Tokens ==
    {"-h", "--debug", "--libavloglevel", "-d", "-i", "-v", "--hash", "--", "-x",
     "a.mkv", "b.bin", "MD5", "ffv1", "quiet", "g=1"}

\* argv[i][0] == '-'
StartsWithDash(arg) ==
    arg \in {"-h", "--debug", "--libavloglevel", "-d", "-i", "-v", "--hash", "--", "-x"}

\* strchr(arg, '=') != nullptr
HasEqSign(arg) == arg = "g=1"

\* the keys of libavLogLevels
libavLogLevels ==
    {"quiet", "panic", "fatal", "error", "warning", "info", "verbose", "debug", "trace"}

\* parseVideoCodec: whether the name is one of ffv1, huffyuv, h264
parseVideoCodec(name) == name \in {"ffv1", "huffyuv", "h264"}

\* enumerateHashAlgorithms, as names on the command line
HashAlgorithms == {"MD5", "CRC32"}

\* parseCodecOptions over the words that follow the codec name: the options
\* taken before the loop stopped, and whether it stopped on an error (here a
\* key set twice)
RECURSIVE parseCodecOptions(_, _)
parseCodecOptions(args, result) ==
    IF args = <<>> \/ ~HasEqSign(Head(args))
    THEN [result |-> result, errorFlag |-> FALSE]
    ELSE IF Head(args) \in result
    THEN [result |-> result, errorFlag |-> TRUE]
    ELSE parseCodecOptions(Tail(args), result \cup {Head(args)})

\* llrFileFromMkv: the name with .mkv replaced by .llr, or "" after a warning
llrFileFromMkv(argValue) == IF argValue = "a.mkv" THEN "a.llr" ELSE ""

\* the CommandLine constructor before its loop
CliStart(argv) ==
    [argv |-> argv, i |-> 1, valid |-> TRUE, warned |-> {}, help |-> FALSE,
     seenLibavLogLevel |-> FALSE, seenInputFile |-> FALSE, seenOutputFile |-> FALSE,
     seenVideoCodec |-> FALSE, seenHashName |-> FALSE, seenDoubleDash |-> FALSE,
     m_debugFlag |-> FALSE, m_decompressFlag |-> FALSE, m_inputFile |-> "",
     m_outputFile |-> "", m_llrFile |-> ""]

\* logWarning(msg) followed by valid = false
Invalid(c, msg) == [c EXCEPT !.warned = @ \cup {msg}, !.valid = FALSE]

\* the constructor's branch for a second positional argument: a warning
RepeatedOutput(c) ==
    [c EXCEPT !.warned = @ \cup {"Argument cannot be repeated more than once: OUTPUT"}]

\* process_positional_argument
Positional(c, arg) ==
    IF c.seenOutputFile THEN RepeatedOutput(c)
    ELSE [c EXCEPT !.m_outputFile = arg, !.seenOutputFile = TRUE]

\* an option that takes a value: ++i, then "Argument required", "cannot be
\* repeated", or the value is taken; the seen flag is set in every case
WithValue(c, seen, name, Take(_, _)) ==
    LET d == [c EXCEPT !.i = @ + 1]
    IN  IF d.i > Len(c.argv) THEN Invalid(d, "Argument required: " \o name)
        ELSE IF seen THEN Invalid(d, "Option cannot be repeated more than once: " \o name)
        ELSE Take(d, c.argv[d.i])

TakeLibavLogLevel(c, arg) ==
    IF arg \in libavLogLevels THEN c ELSE Invalid(c, "Invalid libav log level")

TakeInputFile(c, arg) == [c EXCEPT !.m_inputFile = arg]

TakeVideoCodec(c, arg) ==
    LET o == parseCodecOptions(SubSeq(c.argv, c.i + 1, Len(c.argv)), {})
        d == IF parseVideoCodec(arg) THEN c
             ELSE [c EXCEPT !.warned = @ \cup {"Invalid or unsupported video codec"}]
        e == IF o.errorFlag
             THEN [d EXCEPT !.warned = @ \cup {"Codec option set more than once"}]
             ELSE d
    IN  [e EXCEPT !.valid = @ /\ parseVideoCodec(arg) /\ ~o.errorFlag,
                  !.i = @ + Cardinality(o.result)]

TakeHashName(c, arg) ==
    IF arg \in HashAlgorithms THEN c ELSE Invalid(c, "Invalid hash algorithm")

\* one iteration of the constructor's for loop, on argv[i]
ParseStep(c) ==
    LET arg == c.argv[c.i]
        d == IF c.seenDoubleDash THEN Positional(c, arg)
             ELSE IF arg = "-h" THEN [c EXCEPT !.help = TRUE]
             ELSE IF arg = "--debug"
             THEN IF c.m_debugFlag
                  THEN Invalid(c, "Option cannot be repeated more than once: --debug")
                  ELSE [c EXCEPT !.m_debugFlag = TRUE]
             ELSE IF arg = "--libavloglevel"
             THEN [WithValue(c, c.seenLibavLogLevel, "--libavloglevel LEVEL",
                             TakeLibavLogLevel) EXCEPT !.seenLibavLogLevel = TRUE]
             ELSE IF arg = "-d"
             THEN IF c.m_decompressFlag
                  THEN Invalid(c, "Option cannot be repeated more than once: -d")
                  ELSE [c EXCEPT !.m_decompressFlag = TRUE]
             ELSE IF arg = "-i"
             THEN [WithValue(c, c.seenInputFile, "-i INPUT", TakeInputFile)
                     EXCEPT !.seenInputFile = TRUE]
             ELSE IF arg = "-v"
             THEN [WithValue(c, c.seenVideoCodec, "-v CODEC_NAME [key=value ...]",
                             TakeVideoCodec) EXCEPT !.seenVideoCodec = TRUE]
             ELSE IF arg = "--hash"
             THEN [WithValue(c, c.seenHashName, "--hash ALGORITHM", TakeHashName)
                     EXCEPT !.seenHashName = TRUE]
             ELSE IF arg = "--" THEN [c EXCEPT !.seenDoubleDash = TRUE]
             ELSE IF StartsWithDash(arg) THEN Invalid(c, "Invalid option")
             ELSE Positional(c, arg)
    IN  [d EXCEPT !.i = @ + 1]

\* the constructor after its loop: options that exclude each other, the
\* required arguments, the name of the LLR file
FinalChecks(c) ==
    LET c1 == IF c.m_decompressFlag /\ c.seenVideoCodec
              THEN Invalid(c, "Option can only be used if -d is not set: -v")
              ELSE c
        c2 == IF c.m_decompressFlag /\ c.seenHashName
              THEN Invalid(c1, "Option can only be used if -d is not set: --hash")
              ELSE c1
        c3 == IF ~c.seenInputFile THEN Invalid(c2, "Missing required option: -i INPUT")
              ELSE IF c.m_decompressFlag
              THEN IF llrFileFromMkv(c.m_inputFile) = ""
                   THEN Invalid(c2, "Argument error: INPUT must end with .mkv")
                   ELSE [c2 EXCEPT !.m_llrFile = llrFileFromMkv(c.m_inputFile)]
              ELSE c2
    IN  IF ~c.seenOutputFile THEN Invalid(c3, "Missing required option: OUTPUT")
        ELSE IF ~c.m_decompressFlag
        THEN IF llrFileFromMkv(c.m_outputFile) = ""
             THEN Invalid([c3 EXCEPT !.m_llrFile = ""],
                          "Argument error: OUTPUT must end with .mkv")
             ELSE [c3 EXCEPT !.m_llrFile = llrFileFromMkv(c.m_outputFile)]
        ELSE c3

\* the constructor run to its end on a command line without -h
RECURSIVE ParseAll(_)
ParseAll(c) == IF c.i > Len(c.argv) THEN FinalChecks(c) ELSE ParseAll(ParseStep(c))

\* ------------------------------------------------------------------ state

VARIABLES
    pc,            \* position of the running pass
    err,           \* message of the fatal error that ended the process, or ""
    inputSize,     \* size of the original file
    inStreams,     \* codec names of the input container's streams
    m_streams,     \* PacketReferences::m_streams of the compression pass
    m_table,       \* PacketReferences::m_table of the compression pass
    m_outPacketIndex, \* Encoder::m_outPacketIndex, per encoder
    pix_fmt,       \* pixel format of the input container's raw video
    pix_fmts,      \* AVCodec::pix_fmts of the output video codec
    m_outputPixFmt, \* m_outputCodecContext->pix_fmt, per encoder
    m_outputStream, \* m_outputStream->index, per encoder
    muxed,         \* packets handed to the muxer, in order
    nread,         \* packets the demuxer has returned so far
    calls,         \* addPacketReference calls that returned, in order
    lastAdd,       \* the last addPacketReference call: arguments, table before, outcome
    hashName,      \* cmd.hashName()
    llrFile,       \* bytes of the LLR file
    inputPos,      \* avio_tell(inputFile) while writeLLR reads the original
    hashCtx,       \* bytes fed to av_hash_update, in order
    wr,            \* writeLLR's locals
    llrLog,        \* writes issued to the LLR file, in order
    llrSeeks,      \* seeks issued on the LLR file, in order
    embedLog,      \* embedChunk calls, in order
    pass,          \* "compress" or "decompress"
    tampered,      \* whether the compressed pair was altered between the passes
    damage,        \* how it was altered, or "none"
    info,          \* LLRInfo returned by readLLR
    packetRefs,    \* PacketReferences of the decompression pass
    rd,            \* readLLR's locals
    outputFile,    \* bytes of the reconstructed file
    outLog,        \* writes issued to the output file, in order
    max_packet_size, \* outputFile->max_packet_size
    avioWrites,    \* avio_write calls made on the output file: caller and size
    wic,           \* the locals of a running writeInChunks call
    loadLog,       \* loadChunk calls, in order
    decoders,      \* decompress()'s decoders: kind and packets decoded so far
    reverseRefs,   \* (streamIndex, packetIndex, pts) -> (origPos, origSize)
    packetIndexPerStream, \* decompress()'s per-stream packet counters
    mkvRead,       \* packets of each stream the demuxer has returned
    vh,            \* verifyHash's locals
    exitCode,      \* what the finished pass returned
    cli,           \* CommandLine: argv, the constructor's locals, the members
    cur            \* the packet inside processPacket, when its steps are told apart

compressVars == <<inputSize, inStreams, m_streams, m_table, m_outPacketIndex,
                  muxed, nread, calls, lastAdd, pix_fmt, pix_fmts, m_outputPixFmt, m_outputStream>>

writerVars == <<hashName, llrFile, inputPos, hashCtx, wr, llrLog, llrSeeks, embedLog>>

sinkVars == <<max_packet_size, avioWrites, wic>>

readerVars == <<info, packetRefs, rd, outputFile, outLog, loadLog, sinkVars>>

decodeVars == <<decoders, reverseRefs, packetIndexPerStream, mkvRead, vh>>

tamperVars == <<tampered, damage>>

vars == <<pc, err, pass, cli, cur, tamperVars, exitCode, compressVars, writerVars, readerVars,
          decodeVars>>

NoCall == [made |-> FALSE]

\* no writeInChunks call is running
NoChunks == [buf |-> <<>>, pos |-> 0, size |-> 0, written |-> <<>>, writes |-> 0]

\* what no operation has touched yet
InitRest ==
    /\ m_outputPixFmt = <<>>
    /\ m_outputStream = <<>>
    /\ err = ""
    /\ m_outPacketIndex = <<>>
    /\ muxed = <<>>
    /\ nread = 0
    /\ calls = <<>>
    /\ lastAdd = NoCall
    /\ hashName = <<>>
    /\ llrFile = <<>>
    /\ inputPos = 0
    /\ hashCtx = <<>>
    /\ wr = [llrPos |-> 0, prevOffset |-> 0, hashPos |-> 0, hashSize |-> 0,
             idx |-> 1, start |-> 0, end |-> 0, ret |-> ""]
    /\ llrLog = <<>>
    /\ llrSeeks = <<>>
    /\ embedLog = <<>>
    /\ pass = "compress"
    /\ tampered = FALSE
    /\ damage = "none"
    /\ info = [originalFileSize |-> 0, hashName |-> <<>>, hashBuffer |-> <<>>]
    /\ packetRefs = [streams |-> <<>>, table |-> <<>>]
    /\ rd = [llrPos |-> 0, prevOffset |-> 0, idx |-> 1, start |-> 0, end |-> 0,
             ret |-> ""]
    /\ outputFile = <<>>
    /\ outLog = <<>>
    /\ avioWrites = {}
    /\ loadLog = <<>>
    /\ decoders = <<>>
    /\ reverseRefs = <<>>
    /\ packetIndexPerStream = <<>>
    /\ mkvRead = <<>>
    /\ vh = [pos |-> 0, fed |-> <<>>]
    /\ exitCode = "none"
    /\ cur = NoCall

InitData ==
    /\ InitRest
    /\ m_streams = <<>>
    /\ m_table = <<>>
    /\ max_packet_size = 0
    /\ wic = NoChunks

\* compress() is entered: the command line "-i b.bin a.mkv" was accepted
InitState ==
    /\ InitData
    /\ inputSize \in 0..MaxFileSize
    /\ inStreams \in StreamLayouts
    /\ pc = "NewEncoders"
    /\ cli = ParseAll(CliStart(<<"-i", "b.bin", "a.mkv">>))

Init ==
    /\ InitState
    /\ pix_fmt = "yuv"
    /\ pix_fmts = [null |-> FALSE, list |-> <<"yuv444", "yuv">>]

\* logError: print and exit(EXIT_FAILURE)
Fatal(msg) == pc' = "Failed" /\ err' = msg

\* ------------------------------------------------------------- compress()

\* avformat_new_stream in the Encoder constructor: the index of the stream
\* added to an output context that holds nb_streams streams
avformat_new_stream(nb_streams) == nb_streams

\* PacketReferences::addVideoStream and addCopyStream: the row pushed back
addVideoStream(pixelFormat) ==
    [type |-> Video, pixelFormat |-> av_get_pix_fmt_name(pixelFormat)]

addCopyStream == [type |-> Copy, pixelFormat |-> <<>>]

VideoRowFormat_Output(inputPixFmt, outputPixFmt) == outputPixFmt

\* the format VideoEncoder's constructor passes to addVideoStream:
\* m_inputCodecContext->pix_fmt
VideoRowFormat(inputPixFmt, outputPixFmt) == inputPixFmt

\* compress(), the loop over the input streams: one encoder per stream, whose
\* constructor appends the stream row and starts its packet counter at 0
NewEncoder ==
    /\ pc = "NewEncoders"
    /\ Len(m_streams) < Len(inStreams)
    /\ LET i == Len(m_streams) + 1
           video == inStreams[i] = "rawvideo"
           chosen == IF video
                     THEN selectCompatibleLosslessPixelFormat(pix_fmt, pix_fmts)
                     ELSE AV_PIX_FMT_NONE
       IN  /\ m_streams' = Append(m_streams,
                   IF video
                   THEN addVideoStream(VideoRowFormat(pix_fmt, chosen))
                   ELSE addCopyStream)
           /\ m_outPacketIndex' = Append(m_outPacketIndex, 0)
           /\ m_outputPixFmt' = Append(m_outputPixFmt, chosen)
           /\ m_outputStream' = Append(m_outputStream,
                                       avformat_new_stream(Len(m_outputStream)))
           /\ IF video /\ chosen = AV_PIX_FMT_NONE
              THEN Fatal("selectCompatibleLosslessPixelFormat: failed to select output pixel format")
              ELSE UNCHANGED <<pc, err>>
    /\ UNCHANGED <<inputSize, inStreams, m_table, muxed, nread, calls, lastAdd,
                   pix_fmt, pix_fmts>>
    /\ UNCHANGED <<writerVars, pass, cli, cur, tamperVars, exitCode, readerVars, decodeVars>>

CompressAfter_TrailerFirst(stage) ==
    CASE stage = "NewEncoders" -> "ReadLoop"
      [] stage = "ReadLoop" -> "WriteTrailer"
      [] stage = "WriteTrailer" -> "writeLLR"
      [] stage = "writeLLR" -> "Compressed"

\* the order of the statements of compress(): the loop that builds the
\* encoders, avformat_write_header and the read loop, writeLLR,
\* av_write_trailer, return
CompressAfter(stage) ==
    CASE stage = "NewEncoders" -> "ReadLoop"
      [] stage = "ReadLoop" -> "writeLLR"
      [] stage = "writeLLR" -> "WriteTrailer"
      [] stage = "WriteTrailer" -> "Compressed"

\* compress(): avformat_write_header once every encoder exists
WriteHeader ==
    /\ pc = "NewEncoders"
    /\ Len(m_streams) = Len(inStreams)
    /\ pc' = CompressAfter("NewEncoders")
    /\ UNCHANGED <<err, compressVars, writerVars>>
    /\ UNCHANGED <<pass, cli, cur, tamperVars, exitCode, readerVars, decodeVars>>

ReferencePts_Input(inputPts, outputPts) == inputPts

\* the pts finalizeAndWritePacket passes to addPacketReference:
\* outputPacket->pts, after av_packet_rescale_ts
ReferencePts(inputPts, outputPts) == outputPts

\* the pos of the packet an encoder hands on: the CopyEncoder's packet is a
\* reference to the input packet, the video codec's packet has no position
OutputPos(streamInfo, origPos) == IF streamInfo.type = Video THEN -1 ELSE origPos

ReferencePos_Output(origPos, outputPos) == outputPos

\* the origPos finalizeAndWritePacket passes to addPacketReference:
\* inputPacket->pos
ReferencePos(origPos, outputPos) == origPos

IncrementPacketIndex_Stuck(index) == index

\* m_outPacketIndex++ at the end of finalizeAndWritePacket
IncrementPacketIndex(index) == index + 1

\* one iteration of compress()'s read loop: av_read_frame returns a packet of
\* some stream and its encoder processes it (processPacket, then
\* finalizeAndWritePacket)
ProcessPacket ==
    /\ pc = "ReadLoop"
    /\ nread < MaxPackets
    /\ \E s \in 1..Len(inStreams), pos \in 0..inputSize, size \in 0..MaxSize :
         LET outPts == Rescale(PacketPts(pos))
             \* m_outputStream->index: streams are numbered from 0
             refPts == ReferencePts(PacketPts(pos), outPts)
             refPos == ReferencePos(pos, OutputPos(m_streams[s], pos))
             r == addPacketReference(m_table, m_outputStream[s], m_outPacketIndex[s], refPts, refPos,
                                     size)
             payload == IF m_streams[s].type = Video
                        THEN EncodeVideo(PacketData(pos, size))
                        ELSE PacketData(pos, size)
         IN  /\ nread' = nread + 1
             /\ lastAdd' = [made |-> TRUE, before |-> m_table, halt |-> r.halt,
                            streamIndex |-> m_outputStream[s],
                            packetIndex |-> m_outPacketIndex[s],
                            pts |-> refPts, origPos |-> refPos, origSize |-> size]
             /\ m_table' = r.table
             /\ IF r.halt
                THEN /\ Fatal("addPacketReference: overlapping range, probably a bug. halting!")
                     /\ UNCHANGED <<muxed, m_outPacketIndex, calls>>
                ELSE /\ muxed' = Append(muxed, [stream_index |-> m_outputStream[s], pts |-> outPts,
                                                data |-> payload])
                     /\ m_outPacketIndex' = [m_outPacketIndex EXCEPT ![s] = IncrementPacketIndex(@)]
                     /\ calls' = Append(calls, [streamIndex |-> m_outputStream[s],
                                                packetIndex |-> m_outPacketIndex[s],
                                                pts |-> refPts, origPos |-> refPos,
                                                origSize |-> size])
                     /\ UNCHANGED <<pc, err>>
    /\ UNCHANGED <<inputSize, inStreams, m_streams, pix_fmt, pix_fmts, m_outputPixFmt, m_outputStream>>
    /\ UNCHANGED <<writerVars, pass, cli, cur, tamperVars, exitCode, readerVars, decodeVars>>

\* av_read_frame returns AVERROR_EOF: leave the read loop and call writeLLR
InputEOF ==
    /\ pc = "ReadLoop"
    /\ pc' = CompressAfter("ReadLoop")
    /\ UNCHANGED <<err, compressVars, writerVars>>
    /\ UNCHANGED <<pass, cli, cur, tamperVars, exitCode, readerVars, decodeVars>>

\* --------------------------------------------------------------- writeLLR

ReserveEnd_NoReserve(hashPos, hashSize) == hashPos

\* seekOrFail(llrFile, hashPos + hashSize): where writing resumes after the
\* space reserved for the final hash
ReserveEnd(hashPos, hashSize) == hashPos + hashSize

\* writeLLR up to the first chunk: magic, input size, hash name and size, the
\* seek over the reserved hash slot, the serialized PacketReferences, and the
\* rewind of the input file
WriteLLRHeader ==
    /\ pc = "writeLLR"
    /\ \E name \in HashNames :
         LET hashSize == av_hash_get_size(name)
             b2 == avio_wb(8, inputSize)
             b3 == avio_put_str(name)
             b4 == avio_wb(2, hashSize)
             hashPos == 4 + Len(b2) + Len(b3) + Len(b4)
             body == serialize(m_streams, m_table)
             streamsLen == 4 + Len(SerializeStreams(m_streams))
             bodyPos == ReserveEnd(hashPos, hashSize)
         IN  /\ hashName' = name
             /\ llrFile' = WriteAt(LLR_MAGIC_SIGNATURE \o b2 \o b3 \o b4, bodyPos, body)
             /\ llrLog' = << [field |-> "magic", pos |-> 0, len |-> 4],
                             [field |-> "originalFileSize", pos |-> 4, len |-> Len(b2)],
                             [field |-> "hashName", pos |-> 4 + Len(b2), len |-> Len(b3)],
                             [field |-> "hashSize", pos |-> 4 + Len(b2) + Len(b3),
                              len |-> Len(b4)],
                             [field |-> "streams", pos |-> bodyPos, len |-> streamsLen],
                             [field |-> "table", pos |-> bodyPos + streamsLen,
                              len |-> Len(body) - streamsLen] >>
             /\ llrSeeks' = << [from |-> hashPos, to |-> bodyPos] >>
             /\ wr' = [wr EXCEPT !.llrPos = bodyPos + Len(body), !.prevOffset = 0,
                                 !.hashPos = hashPos, !.hashSize = hashSize, !.idx = 1]
    /\ hashCtx' = <<>>
    /\ inputPos' = 0
    /\ pc' = "writeLLR_for"
    /\ UNCHANGED <<err, compressVars, embedLog>>
    /\ UNCHANGED <<pass, cli, cur, tamperVars, exitCode, readerVars, decodeVars>>

AfterReference_Forgotten(prevOffset, e) == prevOffset

\* prevOffset += e.origSize
AfterReference(prevOffset, e) == prevOffset + e.origSize

\* entering embedChunk(start, end) or hashChunk(start, end): the input file
\* must stand at start
EnterChunk(kind, start, end, ret, prevOffset) ==
    IF inputPos # start
    THEN /\ Fatal(kind \o ": Unexpected file offset, probably a bug. halting!")
         /\ UNCHANGED <<wr, embedLog>>
    ELSE /\ pc' = kind
         /\ wr' = [wr EXCEPT !.start = start, !.end = end, !.ret = ret,
                             !.prevOffset = prevOffset]
         /\ embedLog' = IF kind = "embedChunk"
                        THEN Append(embedLog, <<start, end>>) ELSE embedLog
         /\ UNCHANGED err

\* the for loop over packetRefs->table(): the next entry starts with an
\* embedChunk of the gap before it, or directly with its hashChunk; after the
\* last entry comes the trailing gap
WriteLLRFor ==
    /\ pc = "writeLLR_for"
    /\ LET keys == TableKeys(m_table)
       IN  IF wr.idx <= Len(keys)
           THEN LET origPos == keys[wr.idx]
                    e == m_table[origPos]
                IN  IF origPos # wr.prevOffset
                    THEN EnterChunk("embedChunk", wr.prevOffset, origPos, "entry",
                                    wr.prevOffset)
                    ELSE EnterChunk("hashChunk", origPos, AfterReference(wr.prevOffset, e),
                                    "entry", AfterReference(wr.prevOffset, e))
           ELSE IF wr.prevOffset # inputSize
                THEN EnterChunk("embedChunk", wr.prevOffset, inputSize, "final",
                                wr.prevOffset)
                ELSE /\ pc' = "writeLLR_hash"
                     /\ UNCHANGED <<err, wr, embedLog>>
    /\ UNCHANGED <<compressVars, hashName, llrFile, inputPos, hashCtx, llrLog, llrSeeks>>
    /\ UNCHANGED <<pass, cli, cur, tamperVars, exitCode, readerVars, decodeVars>>

HashFeed_EmbeddedOnly(kind, ctx, buffer) ==
    IF kind = "embedChunk" THEN ctx \o buffer ELSE ctx

\* av_hash_update(hashCtx, buffer, r), in embedChunk and in hashChunk alike
HashFeed(kind, ctx, buffer) == ctx \o buffer

\* the log after a write of gap bytes: consecutive gap bytes are one record
LogGap(log, pos, len) ==
    LET last == log[Len(log)]
    IN  IF last.field = "gap" /\ last.pos + last.len = pos
        THEN [log EXCEPT ![Len(log)].len = @ + len]
        ELSE Append(log, [field |-> "gap", pos |-> pos, len |-> len])

\* one iteration of the while loop of embedChunk or hashChunk: read some
\* bytes of the input; embedChunk appends them to the LLR file; both feed
\* them to the hash
ChunkRead(kind) ==
    /\ pc = kind
    /\ wr.start # wr.end
    /\ \E r \in avio_read_partial(inputSize, inputPos,
                                  Min(LLR_BUFFER_SIZE, wr.end - wr.start)) :
         IF r = 0
         THEN /\ Fatal("avio_read_partial: Premature end of file")
              /\ UNCHANGED <<inputPos, hashCtx, wr, llrFile, llrLog>>
         ELSE IF r < 0
         THEN /\ Fatal("avio_read_partial")
              /\ UNCHANGED <<inputPos, hashCtx, wr, llrFile, llrLog>>
         ELSE LET buffer == Slice(OrigFile(inputSize), inputPos, inputPos + r)
              IN  /\ inputPos' = inputPos + r
                  /\ hashCtx' = HashFeed(kind, hashCtx, buffer)
                  /\ IF kind = "embedChunk"
                     THEN /\ llrFile' = WriteAt(llrFile, wr.llrPos, buffer)
                          /\ llrLog' = LogGap(llrLog, wr.llrPos, r)
                          /\ wr' = [wr EXCEPT !.start = @ + r, !.llrPos = @ + r]
                     ELSE /\ wr' = [wr EXCEPT !.start = @ + r]
                          /\ UNCHANGED <<llrFile, llrLog>>
                  /\ UNCHANGED <<pc, err>>
    /\ UNCHANGED <<compressVars, hashName, llrSeeks, embedLog>>
    /\ UNCHANGED <<pass, cli, cur, tamperVars, exitCode, readerVars, decodeVars>>

EmbedChunkRead == ChunkRead("embedChunk")

HashChunkRead == ChunkRead("hashChunk")

\* embedChunk returns: to the entry whose gap it embedded (prevOffset =
\* origPos, then the entry's hashChunk), or to the end of writeLLR
EmbedChunkReturn ==
    /\ pc = "embedChunk"
    /\ wr.start = wr.end
    /\ IF wr.ret = "entry"
       THEN LET origPos == TableKeys(m_table)[wr.idx]
                e == m_table[origPos]
            IN  EnterChunk("hashChunk", origPos, AfterReference(origPos, e), "entry",
                           AfterReference(origPos, e))
       ELSE /\ pc' = "writeLLR_hash"
            /\ UNCHANGED <<err, wr, embedLog>>
    /\ UNCHANGED <<compressVars, hashName, llrFile, inputPos, hashCtx, llrLog, llrSeeks>>
    /\ UNCHANGED <<pass, cli, cur, tamperVars, exitCode, readerVars, decodeVars>>

\* hashChunk returns: on to the next table entry
HashChunkReturn ==
    /\ pc = "hashChunk"
    /\ wr.start = wr.end
    /\ pc' = "writeLLR_for"
    /\ wr' = [wr EXCEPT !.idx = @ + 1]
    /\ UNCHANGED <<err, compressVars, hashName, llrFile, inputPos, hashCtx, llrLog,
                   llrSeeks, embedLog>>
    /\ UNCHANGED <<pass, cli, cur, tamperVars, exitCode, readerVars, decodeVars>>

\* the end of writeLLR: finalize the hash, seek back to hashPos, store it
StoreHash ==
    /\ pc = "writeLLR_hash"
    /\ LET hashBuffer == av_hash_final(hashName, hashCtx)
       IN  /\ llrSeeks' = Append(llrSeeks, [from |-> wr.llrPos, to |-> wr.hashPos])
           /\ llrFile' = WriteAt(llrFile, wr.hashPos, hashBuffer)
           /\ llrLog' = Append(llrLog, [field |-> "hashBuffer", pos |-> wr.hashPos,
                                        len |-> Len(hashBuffer)])
           /\ wr' = [wr EXCEPT !.llrPos = wr.hashPos + Len(hashBuffer)]
    /\ pc' = CompressAfter("writeLLR")
    /\ UNCHANGED <<err, compressVars, hashName, inputPos, hashCtx, embedLog>>
    /\ UNCHANGED <<pass, cli, cur, tamperVars, exitCode, readerVars, decodeVars>>

\* compress() after writeLLR: av_write_trailer, close, return EXIT_SUCCESS
WriteTrailer ==
    /\ pc = "WriteTrailer"
    /\ pc' = CompressAfter("WriteTrailer")
    /\ exitCode' = "EXIT_SUCCESS"
    /\ UNCHANGED <<err, compressVars, writerVars>>
    /\ UNCHANGED <<pass, cli, cur, tamperVars, readerVars, decodeVars>>

Compress ==
    \/ NewEncoder
    \/ WriteHeader
    \/ ProcessPacket
    \/ InputEOF
    \/ WriteLLRHeader
    \/ WriteLLRFor
    \/ EmbedChunkRead
    \/ HashChunkRead
    \/ EmbedChunkReturn
    \/ HashChunkReturn
    \/ StoreHash
    \/ WriteTrailer

\* ---------------------------------------------------------------- readLLR

\* decompress() up to the first loadChunk: open the files (the output file
\* is created empty), readLLRInfo, deserialize
ReadLLRHeader ==
    /\ pc = "Compressed"
    /\ pass' = "decompress"
    /\ exitCode' = "none"
    /\ max_packet_size' \in 1..MaxChunk
    /\ LET h == readLLRInfo(llrFile)
           d == deserialize(llrFile, h.pos)
       IN  IF h.badMagic
           THEN /\ Fatal("Invalid LLR file signature")
                /\ UNCHANGED <<info, packetRefs, rd>>
           ELSE IF d.abort
           THEN /\ Fatal("abort")
                /\ UNCHANGED <<info, packetRefs, rd>>
           ELSE /\ info' = [originalFileSize |-> h.originalFileSize,
                            hashName |-> h.hashName, hashBuffer |-> h.hashBuffer]
                /\ packetRefs' = [streams |-> d.streams, table |-> d.table]
                /\ rd' = [rd EXCEPT !.llrPos = d.pos, !.prevOffset = 0, !.idx = 1]
                /\ pc' = "readLLR_for"
                /\ UNCHANGED err
    /\ UNCHANGED <<cli, cur, tamperVars, compressVars, writerVars, outputFile, outLog, loadLog,
                   avioWrites, wic, decodeVars>>

SkipReference_Forgotten(prevOffset, e) == prevOffset

\* readLLR's prevOffset += e.origSize: the referenced range is skipped
SkipReference(prevOffset, e) == prevOffset + e.origSize

\* entering loadChunk(start, end)
EnterLoadChunk(start, end, ret) ==
    /\ pc' = "loadChunk"
    /\ rd' = [rd EXCEPT !.start = start, !.end = end, !.ret = ret]
    /\ loadLog' = Append(loadLog, <<start, end>>)

\* the for loop of readLLR over outPacketRefs->table(): a gap before the
\* entry is loaded, the entry's own range is skipped; after the last entry
\* comes the trailing gap, and readLLR returns
ReadLLRFor ==
    /\ pc = "readLLR_for"
    /\ LET keys == TableKeys(packetRefs.table)
       IN  IF rd.idx <= Len(keys)
           THEN LET origPos == keys[rd.idx]
                    e == packetRefs.table[origPos]
                IN  IF origPos # rd.prevOffset
                    THEN EnterLoadChunk(rd.prevOffset, origPos, "entry")
                    ELSE /\ rd' = [rd EXCEPT !.prevOffset = SkipReference(@, e),
                                             !.idx = @ + 1]
                         /\ UNCHANGED <<pc, loadLog>>
           ELSE IF rd.prevOffset # info.originalFileSize
                THEN EnterLoadChunk(rd.prevOffset, info.originalFileSize, "final")
                ELSE /\ pc' = "readLLR_return"
                     /\ UNCHANGED <<rd, loadLog>>
    /\ UNCHANGED <<err, pass, cli, cur, tamperVars, exitCode, compressVars, writerVars, info,
                   packetRefs, outputFile, outLog, sinkVars, decodeVars>>

\* the log after a write to the output file: consecutive bytes written by
\* one loadChunk are one record
LogOut(log, by, pos, len, fresh) ==
    IF ~fresh /\ log # <<>> /\ log[Len(log)].by = by
              /\ log[Len(log)].pos + log[Len(log)].len = pos
    THEN [log EXCEPT ![Len(log)].len = @ + len]
    ELSE Append(log, [by |-> by, pos |-> pos, len |-> len])

\* one iteration of loadChunk's while loop: read some bytes of the LLR file
\* and write them to the output file at the chunk's position
LoadChunkRead ==
    /\ pc = "loadChunk"
    /\ rd.start # rd.end
    /\ \E r \in avio_read_partial(Len(llrFile), rd.llrPos,
                                  Min(LLR_BUFFER_SIZE, rd.end - rd.start)) :
         IF r = 0
         THEN /\ Fatal("avio_read_partial: Premature end of file")
              /\ UNCHANGED <<rd, outputFile, outLog, avioWrites>>
         ELSE IF r < 0
         THEN /\ Fatal("avio_read_partial")
              /\ UNCHANGED <<rd, outputFile, outLog, avioWrites>>
         ELSE LET buffer == Slice(llrFile, rd.llrPos, rd.llrPos + r)
                  first == rd.start = loadLog[Len(loadLog)][1]
              IN  /\ outputFile' = WriteAt(outputFile, rd.start, buffer)
                  /\ outLog' = LogOut(outLog, "readLLR", rd.start, r, first)
                  /\ avioWrites' = avioWrites \cup {[by |-> "readLLR", size |-> r]}
                  /\ rd' = [rd EXCEPT !.start = @ + r, !.llrPos = @ + r]
                  /\ UNCHANGED <<pc, err>>
    /\ UNCHANGED <<pass, cli, cur, tamperVars, exitCode, compressVars, writerVars, info, packetRefs,
                   loadLog, max_packet_size, wic, decodeVars>>

\* loadChunk returns: to the entry whose gap it loaded, or to the end of readLLR
LoadChunkReturn ==
    /\ pc = "loadChunk"
    /\ rd.start = rd.end
    /\ IF rd.ret = "entry"
       THEN LET origPos == TableKeys(packetRefs.table)[rd.idx]
                e == packetRefs.table[origPos]
            IN  /\ rd' = [rd EXCEPT !.prevOffset = SkipReference(origPos, e),
                                    !.idx = @ + 1]
                /\ pc' = "readLLR_for"
       ELSE /\ pc' = "readLLR_return"
            /\ UNCHANGED rd
    /\ UNCHANGED <<err, pass, cli, cur, tamperVars, exitCode, compressVars, writerVars, info,
                   packetRefs, outputFile, outLog, loadLog, sinkVars, decodeVars>>

\* ----------------------------------------------------------- decompress()

\* the streams of the compressed container: one per encoder
nb_streams == Len(m_outPacketIndex)

\* packets of output stream s (numbered from 0) in the compressed container,
\* in the order they were muxed
StreamPackets(s) == SelectSeq(muxed, LAMBDA p : p.stream_index = s)

StreamCountMatches_AtLeast(streams, n) == Len(streams) >= n

\* decompress()'s stream count check: does the LLR file describe as many
\* streams as the compressed container holds
StreamCountMatches(streams, n) == Len(streams) = n

\* the decoder decompress() builds for a stream row: a VideoDecoder with the
\* row's pixel format or a CopyDecoder, and the packets it has decoded so far
NewDecoder(streamInfo) ==
    [type |-> streamInfo.type, pixelFormat |-> streamInfo.pixelFormat, sent |-> 0]

\* decompress() between readLLR and the decode loop: the stream count check,
\* one decoder per stream, the reverse packet mapping
BuildDecoders ==
    /\ pc = "readLLR_return"
    /\ IF ~StreamCountMatches(packetRefs.streams, nb_streams)
       THEN /\ Fatal("Stream count mismatch")
            /\ UNCHANGED decodeVars
       ELSE IF \E i \in 1..nb_streams :
                  /\ packetRefs.streams[i].type = Video
                  /\ ~av_get_pix_fmt_known(packetRefs.streams[i].pixelFormat)
       THEN /\ Fatal("Invalid pixel format string")
            /\ UNCHANGED decodeVars
       ELSE /\ decoders' = [i \in 1..nb_streams |-> NewDecoder(packetRefs.streams[i])]
            /\ reverseRefs' = ReverseRefs(packetRefs.table)
            /\ packetIndexPerStream' = [i \in 1..nb_streams |-> 0]
            /\ mkvRead' = [i \in 1..nb_streams |-> 0]
            /\ pc' = "DecodeLoop"
            /\ UNCHANGED <<err, vh>>
    /\ UNCHANGED <<pass, cli, cur, tamperVars, exitCode, compressVars, writerVars, readerVars>>

AdvancePacketIndex_Shared(counters, s) == [i \in DOMAIN counters |-> counters[i] + 1]

\* packetIndexPerStream[packet->stream_index]++: the counters once the
\* packet's index has been taken
AdvancePacketIndex(counters, s) == [counters EXCEPT ![s] = @ + 1]

decodePacket_AlwaysCopy(streamInfo, data) == data

\* Decoder::decodePacket of the decoder built for a stream row
decodePacket(streamInfo, data) ==
    IF streamInfo.type = Video THEN DecodeVideo(data) ELSE data

\* writeInChunks: int chunkSize = std::min(size, s->max_packet_size)
chunkSize(size, max) == Min(size, max)

\* the sizes of the avio_write calls writeInChunks makes for size bytes; the
\* loop ends only when max is positive
RECURSIVE ChunkSizes(_, _)
ChunkSizes(size, max) ==
    IF size = 0 THEN {}
    ELSE {chunkSize(size, max)} \cup ChunkSizes(size - chunkSize(size, max), max)

\* writeInChunks(outputFile, data, size) after seekOrFail(outputFile, start):
\* the chunks follow one another, so the file ends up holding data at start
writeInChunks(file, start, data) == WriteAt(file, start, data)

FindDestination_IgnorePts(refs, key) ==
    {k \in DOMAIN refs : k[1] = key[1] /\ k[2] = key[2]}

\* reverseRefs.find(key): the entry stored under exactly this (streamIndex,
\* packetIndex, pts), or none
FindDestination(refs, key) == {k \in DOMAIN refs : k = key}

SizeMatches_Unchecked(data, origSize) == TRUE

\* decompress()'s origSize check on a decoded packet
SizeMatches(data, origSize) == Len(data) = origSize

\* one iteration of decompress()'s decode loop: av_read_frame returns the
\* next packet of some stream; it is looked up, decoded, checked and written
DecodePacket ==
    /\ pc = "DecodeLoop"
    /\ \E s \in 1..nb_streams :
         /\ mkvRead[s] < Len(StreamPackets(s - 1))
         /\ LET packet == StreamPackets(s - 1)[mkvRead[s] + 1]
                packetIndex == packetIndexPerStream[s]
                key == <<packet.stream_index, packetIndex, packet.pts>>
                found == FindDestination(reverseRefs, key)
            IN  /\ mkvRead' = [mkvRead EXCEPT ![s] = @ + 1]
                /\ packetIndexPerStream' = AdvancePacketIndex(packetIndexPerStream, s)
                /\ IF found = {}
                   THEN /\ Fatal("Failed to find destination block")
                        /\ UNCHANGED <<decoders, reverseRefs, outputFile, outLog,
                                       avioWrites>>
                   ELSE LET it == CHOOSE k \in found : TRUE
                            uncompressedData == decodePacket(decoders[s], packet.data)
                            start == reverseRefs[it][1]
                        IN  /\ decoders' = [decoders EXCEPT ![s].sent = @ + 1]
                            /\ IF ~SizeMatches(uncompressedData, reverseRefs[it][2])
                               THEN /\ Fatal("Decoded to a different size than expected")
                                    /\ UNCHANGED <<reverseRefs, outputFile, outLog,
                                                   avioWrites>>
                               ELSE /\ outputFile' = writeInChunks(outputFile, start,
                                                                   uncompressedData)
                                    /\ avioWrites' = avioWrites \cup
                                         {[by |-> "writeInChunks", size |-> n] :
                                          n \in ChunkSizes(Len(uncompressedData),
                                                           max_packet_size)}
                                    /\ outLog' = IF uncompressedData = <<>> THEN outLog
                                                 ELSE LogOut(outLog, "packet", start,
                                                             Len(uncompressedData), TRUE)
                                    /\ reverseRefs' = [k \in DOMAIN reverseRefs \ {it} |->
                                                          reverseRefs[k]]
                                    /\ UNCHANGED <<pc, err>>
    /\ UNCHANGED <<pass, cli, cur, tamperVars, exitCode, compressVars, writerVars, info, packetRefs,
                   rd, loadLog, max_packet_size, wic, vh>>

AllArrived_Unchecked(refs) == TRUE

\* decompress() after the decode loop: reverseRefs.empty()
AllArrived(refs) == DOMAIN refs = {}

\* av_read_frame returns AVERROR_EOF: every source packet must have arrived;
\* verifyHash then allocates the hash and checks its size
OutputEOF ==
    /\ pc = "DecodeLoop"
    /\ \A s \in 1..nb_streams : mkvRead[s] = Len(StreamPackets(s - 1))
    /\ IF ~AllArrived(reverseRefs)
       THEN Fatal("One or more source packets are missing")
       ELSE IF info.hashName \notin HashNames
       THEN Fatal("Hash verification failed: algorithm is not supported")
       ELSE IF av_hash_get_size(info.hashName) # Len(info.hashBuffer)
       THEN Fatal("Hash verification failed: hash size mismatch")
       ELSE pc' = "verifyHash" /\ UNCHANGED err
    /\ vh' = [pos |-> 0, fed |-> <<>>]
    /\ UNCHANGED <<pass, cli, cur, tamperVars, exitCode, compressVars, writerVars, readerVars,
                   decoders, reverseRefs, packetIndexPerStream, mkvRead>>

\* outcomes of avio_read(file, buffer, want) with the file at offset pos: the
\* bytes asked for, fewer at end of file, AVERROR_EOF when none is left
avio_read(size, pos, want) ==
    IF pos >= size THEN -1 ELSE Min(want, size - pos)

\* one iteration of verifyHash's while loop
VerifyHashRead ==
    /\ pc = "verifyHash"
    /\ vh.pos # info.originalFileSize
    /\ LET r == avio_read(Len(outputFile), vh.pos,
                          Min(info.originalFileSize - vh.pos, LLR_BUFFER_SIZE))
       IN  IF r < 0
           THEN /\ Fatal("avio_read_partial")
                /\ UNCHANGED vh
           ELSE /\ vh' = [pos |-> vh.pos + r,
                          fed |-> vh.fed \o Slice(outputFile, vh.pos, vh.pos + r)]
                /\ UNCHANGED <<pc, err>>
    /\ UNCHANGED <<pass, cli, cur, tamperVars, exitCode, compressVars, writerVars, readerVars,
                   decoders, reverseRefs, packetIndexPerStream, mkvRead>>

hashOk_Unchecked(name, fed, expectedHash) == TRUE

\* verifyHash's verdict: does the hash recomputed over the output file equal expectedHash
hashOk(name, fed, expectedHash) == av_hash_final(name, fed) = expectedHash

\* the end of verifyHash and of decompress(): compare the hashes
VerifyHashFinal ==
    /\ pc = "verifyHash"
    /\ vh.pos = info.originalFileSize
    /\ IF hashOk(info.hashName, vh.fed, info.hashBuffer)
       THEN /\ pc' = "Decompressed"
            /\ exitCode' = "EXIT_SUCCESS"
            /\ UNCHANGED err
       ELSE /\ Fatal("Hash verification failed: corrupt file")
            /\ UNCHANGED exitCode
    /\ UNCHANGED <<pass, cli, cur, tamperVars, compressVars, writerVars, readerVars, decodeVars>>

Decompress ==
    \/ ReadLLRHeader
    \/ ReadLLRFor
    \/ LoadChunkRead
    \/ LoadChunkReturn
    \/ BuildDecoders
    \/ DecodePacket
    \/ OutputEOF
    \/ VerifyHashRead
    \/ VerifyHashFinal

Next == Compress \/ Decompress

Spec == Init /\ [][Next]_vars

\* ------------------------------------- a damaged pair between the two passes

\* the file with the byte at offset pos changed
Damaged(file, pos) == [file EXCEPT ![pos + 1] = (@ + 1) % 256]

\* one payload byte of one packet of the compressed container is altered
TamperPacket ==
    /\ pc = "Compressed"
    /\ ~tampered
    /\ tampered' = TRUE
    /\ damage' = "payload"
    /\ \E i \in 1..Len(muxed) : \E j \in 0..(Len(muxed[i].data) - 1) :
         muxed' = [muxed EXCEPT ![i].data = Damaged(@, j)]
    /\ UNCHANGED <<pc, err, pass, cli, cur, exitCode, inputSize, inStreams, m_streams, m_table,
                   pix_fmt, pix_fmts, m_outputPixFmt, m_outputStream,
                   m_outPacketIndex, nread, calls, lastAdd, writerVars, readerVars,
                   decodeVars>>

\* one byte of the hash stored in the LLR file is altered
TamperHash ==
    /\ pc = "Compressed"
    /\ ~tampered
    /\ tampered' = TRUE
    /\ damage' = "hash"
    /\ \E j \in 0..(wr.hashSize - 1) : llrFile' = Damaged(llrFile, wr.hashPos + j)
    /\ UNCHANGED <<pc, err, pass, cli, cur, exitCode, compressVars, hashName, inputPos, hashCtx, wr,
                   llrLog, llrSeeks, embedLog, readerVars, decodeVars>>

\* the LLR file stores a hash one byte shorter: hashSize and the hash slot
\* are both one less
ShortenHash ==
    /\ pc = "Compressed"
    /\ ~tampered
    /\ tampered' = TRUE
    /\ damage' = "hashSize"
    /\ llrFile' = Slice(llrFile, 0, wr.hashPos - 2) \o avio_wb(2, wr.hashSize - 1)
                  \o Slice(llrFile, wr.hashPos, wr.hashPos + wr.hashSize - 1)
                  \o Slice(llrFile, wr.hashPos + wr.hashSize, Len(llrFile))
    /\ UNCHANGED <<pc, err, pass, cli, cur, exitCode, compressVars, hashName, inputPos, hashCtx, wr,
                   llrLog, llrSeeks, embedLog, readerVars, decodeVars>>

\* the pts of one packet of the compressed container is altered
TamperPts ==
    /\ pc = "Compressed"
    /\ ~tampered
    /\ tampered' = TRUE
    /\ damage' = "pts"
    /\ \E i \in 1..Len(muxed) : muxed' = [muxed EXCEPT ![i].pts = @ + 1]
    /\ UNCHANGED <<pc, err, pass, cli, cur, exitCode, inputSize, inStreams, m_streams, m_table,
                   pix_fmt, pix_fmts, m_outputPixFmt, m_outputStream,
                   m_outPacketIndex, nread, calls, lastAdd, writerVars, readerVars,
                   decodeVars>>

\* the sequence without its i-th element
Without(seq, i) == SubSeq(seq, 1, i - 1) \o SubSeq(seq, i + 1, Len(seq))

\* one packet of the compressed container is removed
DropPacket ==
    /\ pc = "Compressed"
    /\ ~tampered
    /\ tampered' = TRUE
    /\ damage' = "dropped"
    /\ \E i \in 1..Len(muxed) : muxed' = Without(muxed, i)
    /\ UNCHANGED <<pc, err, pass, cli, cur, exitCode, inputSize, inStreams, m_streams, m_table,
                   pix_fmt, pix_fmts, m_outputPixFmt, m_outputStream,
                   m_outPacketIndex, nread, calls, lastAdd, writerVars, readerVars,
                   decodeVars>>

\* one packet of the compressed container loses its last payload byte
ShrinkPacket ==
    /\ pc = "Compressed"
    /\ ~tampered
    /\ tampered' = TRUE
    /\ damage' = "shrunk"
    /\ \E i \in 1..Len(muxed) :
         /\ muxed[i].data # <<>>
         /\ muxed' = [muxed EXCEPT ![i].data = SubSeq(@, 1, Len(@) - 1)]
    /\ UNCHANGED <<pc, err, pass, cli, cur, exitCode, inputSize, inStreams, m_streams, m_table,
                   pix_fmt, pix_fmts, m_outputPixFmt, m_outputStream,
                   m_outPacketIndex, nread, calls, lastAdd, writerVars, readerVars,
                   decodeVars>>

\* the LLR file with its stream rows replaced: the count and the rows start
\* right after the stored hash
WithStreamRows(file, streams) ==
    LET bodyPos == wr.hashPos + wr.hashSize
        streamsLen == 4 + Len(SerializeStreams(m_streams))
    IN  Slice(file, 0, bodyPos) \o avio_wb(4, Len(streams)) \o SerializeStreams(streams)
        \o Slice(file, bodyPos + streamsLen, Len(file))

\* the LLR file describes one stream more (a further copy stream) or one
\* stream less (the last one) than the compressed container holds
TamperStreamRows ==
    /\ pc = "Compressed"
    /\ ~tampered
    /\ tampered' = TRUE
    /\ damage' = "streams"
    /\ \/ llrFile' = WithStreamRows(llrFile,
                          Append(m_streams, [type |-> Copy, pixelFormat |-> <<>>]))
       \/ llrFile' = WithStreamRows(llrFile, SubSeq(m_streams, 1, Len(m_streams) - 1))
    /\ UNCHANGED <<pc, err, pass, cli, cur, exitCode, compressVars, hashName, inputPos, hashCtx, wr,
                   llrLog, llrSeeks, embedLog, readerVars, decodeVars>>

\* the LLR file loses its last byte
TruncateLLR ==
    /\ pc = "Compressed"
    /\ ~tampered
    /\ tampered' = TRUE
    /\ damage' = "truncated"
    /\ llrFile' = SubSeq(llrFile, 1, Len(llrFile) - 1)
    /\ UNCHANGED <<pc, err, pass, cli, cur, exitCode, compressVars, hashName, inputPos, hashCtx, wr,
                   llrLog, llrSeeks, embedLog, readerVars, decodeVars>>

\* the LLR file loses one byte of the stored hash: every later byte moves
\* one offset down
CutHashByte ==
    /\ pc = "Compressed"
    /\ ~tampered
    /\ tampered' = TRUE
    /\ damage' = "cut"
    /\ \E j \in 0..(wr.hashSize - 1) : llrFile' = Without(llrFile, wr.hashPos + j + 1)
    /\ UNCHANGED <<pc, err, pass, cli, cur, exitCode, compressVars, hashName, inputPos, hashCtx, wr,
                   llrLog, llrSeeks, embedLog, readerVars, decodeVars>>

\* the LLR file ends inside the stored hash
TruncateInHashSlot ==
    /\ pc = "Compressed"
    /\ ~tampered
    /\ tampered' = TRUE
    /\ damage' = "cutoff"
    /\ \E j \in 0..(wr.hashSize - 1) : llrFile' = SubSeq(llrFile, 1, wr.hashPos + j)
    /\ UNCHANGED <<pc, err, pass, cli, cur, exitCode, compressVars, hashName, inputPos, hashCtx, wr,
                   llrLog, llrSeeks, embedLog, readerVars, decodeVars>>

\* the LLR file with its table replaced by one of as many rows: the table
\* follows the stream rows
WithTable(file, table) ==
    LET bodyPos == wr.hashPos + wr.hashSize
    IN  Slice(file, 0, bodyPos) \o serialize(m_streams, table)
        \o Slice(file, bodyPos + Len(serialize(m_streams, m_table)), Len(file))

\* a pair that no compress run wrote: the row of the last packet of a stream
\* carries the packetIndex and pts of the row of the packet before it, and
\* the container lacks that last packet
ForgeTwinRow ==
    /\ pc = "Compressed"
    /\ ~tampered
    /\ tampered' = TRUE
    /\ damage' = "twin"
    /\ \E p, q \in DOMAIN m_table : \E i \in 1..Len(muxed) :
         /\ m_table[p].streamIndex = m_table[q].streamIndex
         /\ m_table[q].packetIndex = m_table[p].packetIndex + 1
         /\ muxed[i].stream_index = m_table[q].streamIndex
         /\ \A j \in (i + 1)..Len(muxed) : muxed[j].stream_index # muxed[i].stream_index
         /\ Len(StreamPackets(muxed[i].stream_index)) = m_table[q].packetIndex + 1
         /\ llrFile' = WithTable(llrFile,
                           [m_table EXCEPT ![q].packetIndex = m_table[p].packetIndex,
                                           ![q].pts = m_table[p].pts])
         /\ muxed' = Without(muxed, i)
    /\ UNCHANGED <<pc, err, pass, cli, cur, exitCode, inputSize, inStreams, m_streams, m_table,
                   pix_fmt, pix_fmts, m_outputPixFmt, m_outputStream,
                   m_outPacketIndex, nread, calls, lastAdd, hashName, inputPos, hashCtx, wr,
                   llrLog, llrSeeks, embedLog, readerVars, decodeVars>>

Tamper ==
    \/ TamperPacket
    \/ TamperHash
    \/ ShortenHash
    \/ TamperPts
    \/ DropPacket
    \/ ShrinkPacket
    \/ TamperStreamRows
    \/ TruncateLLR
    \/ CutHashByte
    \/ TruncateInHashSlot
    \/ ForgeTwinRow

NextTamper == Compress \/ Tamper \/ Decompress

SpecTamper == Init /\ [][NextTamper]_vars

\* ------------------------- encoder construction over every codec and input

InitSelect ==
    /\ InitState
    /\ pix_fmt \in PixFmts
    /\ pix_fmts \in CandidateLists

NextSelect == NewEncoder \/ WriteHeader

SpecSelect == InitSelect /\ [][NextSelect]_vars

\* ------------------------- serialize and deserialize over every small table

\* a pixel format name of n characters
LongName(n) == [i \in 1..n |-> 97]

\* stream rows: a copy row, and video rows whose names leave room in
\* deserialize's buffer of 128 bytes, fill it but for the terminator's slot, or
\* fill it with the terminator
StreamRows ==
    {[type |-> Copy, pixelFormat |-> <<>>]}
    \cup {[type |-> Video, pixelFormat |-> n] : n \in {PixFmtName, LongName(126), LongName(127)}}

ReferenceInfos ==
    [origSize : 0..1, streamIndex : 0..1, packetIndex : 0..1, pts : 0..1]

\* tables of up to MaxPackets rows
SmallTables ==
    {<<>>} \cup UNION {[keys -> ReferenceInfos] : keys \in (SUBSET (0..(MaxPackets - 1))) \ {{}}}

InitSerial ==
    /\ InitRest
    /\ m_streams \in SeqsUpTo(StreamRows, 2)
    /\ m_table \in SmallTables
    /\ max_packet_size = 0
    /\ wic = NoChunks
    /\ inputSize = 0
    /\ inStreams = <<>>
    /\ pc = "serialize"
    /\ cli = ParseAll(CliStart(<<"-i", "b.bin", "a.mkv">>))
    /\ pix_fmt = "yuv"
    /\ pix_fmts = [null |-> FALSE, list |-> <<"yuv444", "yuv">>]

\* packetRefs->serialize(llrFile) on an empty file
Serialize ==
    /\ pc = "serialize"
    /\ llrFile' = serialize(m_streams, m_table)
    /\ pc' = "deserialize"
    /\ UNCHANGED <<err, pass, cli, cur, tamperVars, exitCode, compressVars, hashName, inputPos,
                   hashCtx, wr, llrLog, llrSeeks, embedLog, readerVars, decodeVars>>

\* outPacketRefs->deserialize(llrFile) from the start of that file; rd.llrPos
\* is avio_tell(llrFile) afterwards
Deserialize ==
    /\ pc = "deserialize"
    /\ LET d == deserialize(llrFile, 0)
       IN  IF d.abort
           THEN /\ pc' = "Failed"
                /\ err' = "abort"
                /\ UNCHANGED <<packetRefs, rd>>
           ELSE /\ packetRefs' = [streams |-> d.streams, table |-> d.table]
                /\ rd' = [rd EXCEPT !.llrPos = d.pos]
                /\ pc' = "deserialized"
                /\ UNCHANGED err
    /\ UNCHANGED <<pass, cli, cur, tamperVars, exitCode, compressVars, writerVars, info,
                   outputFile, outLog, loadLog, sinkVars, decodeVars>>

NextSerial == Serialize \/ Deserialize

SpecSerial == InitSerial /\ [][NextSerial]_vars

\* ------------------------- writeInChunks over every small buffer and sink

\* writeInChunks(s, buf, size) is entered: buf holds size bytes, and the
\* sink's max_packet_size is 0 (no limit set) or a limit
InitChunks ==
    /\ InitRest
    /\ m_streams = <<>>
    /\ m_table = <<>>
    /\ max_packet_size \in 0..MaxChunk
    /\ wic \in {[buf |-> b, pos |-> 0, size |-> Len(b), written |-> <<>>, writes |-> 0] :
                 b \in SeqsUpTo({1, 2}, MaxBuf)}
    /\ inputSize = 0
    /\ inStreams = <<>>
    /\ pc = "writeInChunks"
    /\ cli = ParseAll(CliStart(<<"-d", "-i", "a.mkv", "b.bin">>))
    /\ pix_fmt = "yuv"
    /\ pix_fmts = [null |-> FALSE, list |-> <<"yuv444", "yuv">>]

\* one iteration of the while (size != 0) loop: avio_write of chunkSize
\* bytes, buf += chunkSize, size -= chunkSize; wic.writes is the parity of
\* the number of avio_write calls made
WriteChunk ==
    /\ pc = "writeInChunks"
    /\ wic.size # 0
    /\ LET n == chunkSize(wic.size, max_packet_size)
       IN  /\ wic' = [wic EXCEPT !.pos = @ + n,
                                 !.size = @ - n,
                                 !.written = @ \o Slice(wic.buf, wic.pos, wic.pos + n),
                                 !.writes = (@ + 1) % 2]
           /\ avioWrites' = avioWrites \cup {[by |-> "writeInChunks", size |-> n]}
    /\ UNCHANGED pc
    /\ UNCHANGED <<err, pass, cli, cur, tamperVars, exitCode, compressVars, writerVars, info,
                   packetRefs, rd, outputFile, outLog, loadLog, max_packet_size, decodeVars>>

\* size == 0: the loop ends and writeInChunks returns
WriteInChunksReturn ==
    /\ pc = "writeInChunks"
    /\ wic.size = 0
    /\ pc' = "returned"
    /\ UNCHANGED <<wic, avioWrites>>
    /\ UNCHANGED <<err, pass, cli, cur, tamperVars, exitCode, compressVars, writerVars, info,
                   packetRefs, rd, outputFile, outLog, loadLog, max_packet_size, decodeVars>>

NextChunks == WriteChunk \/ WriteInChunksReturn

\* the loop is the only thing the thread does: it keeps taking steps
SpecChunks == InitChunks /\ [][NextChunks]_vars /\ WF_vars(NextChunks)

\* ------------------------- compress() with the steps of a packet told apart

StageAfter_WriteFirst(stage) ==
    CASE stage = "processPacket" -> "av_interleaved_write_frame"
      [] stage = "av_interleaved_write_frame" -> "addPacketReference"
      [] stage = "addPacketReference" -> "m_outPacketIndex++"
      [] stage = "m_outPacketIndex++" -> "ReadLoop"

\* the order of the statements of finalizeAndWritePacket that act on the
\* table, the muxer and the counter, after processPacket built the packet
StageAfter(stage) ==
    CASE stage = "processPacket" -> "addPacketReference"
      [] stage = "addPacketReference" -> "av_interleaved_write_frame"
      [] stage = "av_interleaved_write_frame" -> "m_outPacketIndex++"
      [] stage = "m_outPacketIndex++" -> "ReadLoop"

StepUnchanged ==
    UNCHANGED <<inputSize, inStreams, m_streams, pix_fmt, pix_fmts, m_outputPixFmt, m_outputStream,
                writerVars, pass, cli, tamperVars, exitCode, readerVars, decodeVars>>

\* av_read_frame returns a packet; processPacket builds the output packet and
\* finalizeAndWritePacket sets its timestamps and stream index
ReadFrame ==
    /\ pc = "ReadLoop"
    /\ nread < MaxPackets
    /\ \E s \in 1..Len(inStreams), pos \in 0..inputSize, size \in 0..MaxSize :
         cur' = [s |-> s, pos |-> pos, size |-> size,
                 out |-> [stream_index |-> m_outputStream[s],
                          pts |-> Rescale(PacketPts(pos)),
                          data |-> IF m_streams[s].type = Video
                                   THEN EncodeVideo(PacketData(pos, size))
                                   ELSE PacketData(pos, size)]]
    /\ nread' = nread + 1
    /\ pc' = StageAfter("processPacket")
    /\ UNCHANGED <<err, m_table, muxed, m_outPacketIndex, calls, lastAdd>>
    /\ StepUnchanged

\* m_outRefs->addPacketReference(...) with the counter as it stands
AddReference ==
    /\ pc = "addPacketReference"
    /\ LET refPts == ReferencePts(PacketPts(cur.pos), cur.out.pts)
           refPos == ReferencePos(cur.pos, OutputPos(m_streams[cur.s], cur.pos))
           r == addPacketReference(m_table, m_outputStream[cur.s],
                                   m_outPacketIndex[cur.s], refPts,
                                   refPos, cur.size)
           call == [streamIndex |-> m_outputStream[cur.s],
                    packetIndex |-> m_outPacketIndex[cur.s],
                    pts |-> refPts, origPos |-> refPos, origSize |-> cur.size]
       IN  /\ lastAdd' = [made |-> TRUE, before |-> m_table, halt |-> r.halt] @@ call
           /\ m_table' = r.table
           /\ IF r.halt
              THEN /\ Fatal("addPacketReference: overlapping range, probably a bug. halting!")
                   /\ UNCHANGED calls
              ELSE /\ calls' = Append(calls, call)
                   /\ pc' = StageAfter("addPacketReference")
                   /\ UNCHANGED err
    /\ UNCHANGED <<cur, nread, muxed, m_outPacketIndex>>
    /\ StepUnchanged

\* av_interleaved_write_frame(m_outputFormatContext, outputPacket)
WriteFrame ==
    /\ pc = "av_interleaved_write_frame"
    /\ muxed' = Append(muxed, cur.out)
    /\ pc' = StageAfter("av_interleaved_write_frame")
    /\ UNCHANGED <<err, cur, nread, m_table, m_outPacketIndex, calls, lastAdd>>
    /\ StepUnchanged

\* m_outPacketIndex++, and back to the read loop
IncrementIndex ==
    /\ pc = "m_outPacketIndex++"
    /\ m_outPacketIndex' = [m_outPacketIndex EXCEPT ![cur.s] = IncrementPacketIndex(@)]
    /\ pc' = StageAfter("m_outPacketIndex++")
    /\ UNCHANGED <<err, cur, nread, m_table, muxed, calls, lastAdd>>
    /\ StepUnchanged

NextSteps ==
    \/ NewEncoder
    \/ WriteHeader
    \/ ReadFrame
    \/ AddReference
    \/ WriteFrame
    \/ IncrementIndex
    \/ InputEOF
    \/ WriteLLRHeader
    \/ WriteLLRFor
    \/ EmbedChunkRead
    \/ HashChunkRead
    \/ EmbedChunkReturn
    \/ HashChunkReturn
    \/ StoreHash
    \/ WriteTrailer

SpecSteps == Init /\ [][NextSteps]_vars

\* ------------------------------------------------ main(): the command line

InitCLI ==
    /\ InitData
    /\ inputSize = 0
    /\ inStreams = <<"pcm">>
    /\ pc = "CommandLine"
    /\ cli \in {CliStart(argv) : argv \in SeqsUpTo(Tokens, MaxArgs)}
    /\ pix_fmt = "yuv"
    /\ pix_fmts = [null |-> FALSE, list |-> <<"yuv444", "yuv">>]

CliUnchanged ==
    UNCHANGED <<err, pass, cur, tamperVars, compressVars, writerVars, readerVars, decodeVars>>

\* argc <= 1: help() and exit(EXIT_FAILURE)
NoArguments ==
    /\ pc = "CommandLine"
    /\ cli.argv = <<>>
    /\ pc' = "Exited"
    /\ exitCode' = "EXIT_FAILURE"
    /\ UNCHANGED cli
    /\ CliUnchanged

\* one iteration of the constructor's loop; -h prints the help and exits
ParseArgument ==
    /\ pc = "CommandLine"
    /\ cli.argv # <<>>
    /\ cli.i <= Len(cli.argv)
    /\ cli' = ParseStep(cli)
    /\ IF cli'.help
       THEN pc' = "Exited" /\ exitCode' = "EXIT_SUCCESS"
       ELSE UNCHANGED <<pc, exitCode>>
    /\ CliUnchanged

\* the end of the constructor: the checks after the loop, exit(EXIT_FAILURE)
\* unless valid
FinishParse ==
    /\ pc = "CommandLine"
    /\ cli.argv # <<>>
    /\ cli.i > Len(cli.argv)
    /\ cli' = FinalChecks(cli)
    /\ IF cli'.valid
       THEN pc' = "main" /\ UNCHANGED exitCode
       ELSE pc' = "Exited" /\ exitCode' = "EXIT_FAILURE"
    /\ CliUnchanged

\* main() after the constructor: compress(cmd) or decompress(cmd) is called
Main ==
    /\ pc = "main"
    /\ pc' = IF cli.m_decompressFlag THEN "main_decompress" ELSE "main_compress"
    /\ UNCHANGED <<cli, exitCode>>
    /\ CliUnchanged

NextCLI == NoArguments \/ ParseArgument \/ FinishParse \/ Main

SpecCLI == InitCLI /\ [][NextCLI]_vars

\* ------------------------------------------------------------- properties

\* writeLLR has returned: the LLR file is complete
LLRWritten == pc \in {"WriteTrailer", "Compressed"} \/ pass = "decompress"

\* compress() has returned EXIT_SUCCESS
CompressSucceeded == pc = "Compressed" \/ pass = "decompress"

\* the packets the demuxer has returned so far: those whose reference was
\* accepted, and the one whose reference halted the process
Demuxed ==
    [i \in 1..Len(calls) |-> [origPos |-> calls[i].origPos, origSize |-> calls[i].origSize]]
    \o (IF lastAdd.made /\ lastAdd.halt
        THEN << [origPos |-> lastAdd.origPos, origSize |-> lastAdd.origSize] >>
        ELSE <<>>)

\* the packets occupy distinct, non-overlapping extents inside the file
ExtentsWellFormed ==
    /\ \A i \in 1..Len(Demuxed) : Demuxed[i].origPos + Demuxed[i].origSize <= inputSize
    /\ \A i, j \in 1..Len(Demuxed) :
         i # j => /\ Demuxed[i].origPos # Demuxed[j].origPos
                  /\ Demuxed[i].origPos < Demuxed[j].origPos
                       => Demuxed[i].origPos + Demuxed[i].origSize <= Demuxed[j].origPos

\* C1: round trip. For an input container whose packets occupy distinct,
\* non-overlapping extents [pos, pos + size) of the file, compress never
\* ends in a fatal error and returns success; decompress run on the pair
\* compress produced never ends in a fatal error and never stops before its
\* end (a step of decompress is always possible); and when it has
\* returned it has returned success and the output file is the original
\* file, byte for byte.
C1_RoundTrip ==
    /\ (pass = "compress" /\ ExtentsWellFormed) => pc # "Failed"
    /\ pass = "decompress" => pc # "Failed"
    /\ pc = "Compressed" => exitCode = "EXIT_SUCCESS"
    /\ (pass = "decompress" /\ pc \notin {"Failed", "Decompressed"}) => ENABLED Decompress
    /\ pc = "Decompressed" => /\ exitCode = "EXIT_SUCCESS"
                              /\ outputFile = OrigFile(inputSize)

\* a finished round trip of a file with a leading gap and a video packet
C1_Witness ==
    /\ pc = "Decompressed"
    /\ embedLog # <<>>
    /\ \E p \in DOMAIN m_table :
         m_table[p].origSize > 0 /\ m_streams[m_table[p].streamIndex + 1].type = Video

NoOverlap(table) ==
    \A p1, p2 \in DOMAIN table : p1 < p2 => p1 + table[p1].origSize <= p2

\* C2: no-overlap invariant of the table. As long as no addPacketReference
\* call has halted the process, any two entries (p1, s1), (p2, s2) of the
\* table with p1 < p2 satisfy p1 + s1 <= p2.
C2_NoOverlap == (pass = "compress" /\ pc # "Failed") => NoOverlap(m_table)

\* the rows of the table as they stand in the LLR file, in file order
LLRRows(file) ==
    LET h == readLLRInfo(file)
        st == DeserializeStreams(file, h.pos + 4, avio_rb(4, file, h.pos), <<>>)
        n == avio_rb(8, file, st.pos)
    IN  [k \in 1..n |-> [origPos |-> avio_rb(8, file, st.pos + 8 + 32 * (k - 1)),
                         origSize |-> avio_rb(4, file, st.pos + 16 + 32 * (k - 1))]]

\* C3: in the LLR file of a compress run that returned success, every table
\* row ends at or before the next row's origPos and at or before
\* originalFileSize; every row of the table is in the file.
C3_LLRNoOverlap ==
    CompressSucceeded =>
        LET rows == LLRRows(llrFile)
            originalFileSize == avio_rb(8, llrFile, 4)
        IN  /\ Len(rows) = Cardinality(DOMAIN m_table)
            /\ \A k \in 1..Len(rows) :
                 /\ rows[k].origPos + rows[k].origSize <= originalFileSize
                 /\ k < Len(rows) => rows[k].origPos + rows[k].origSize <= rows[k + 1].origPos

\* a successful compress run whose two packets were demuxed in descending
\* position order
C3_Witness ==
    /\ pc = "Compressed"
    /\ Len(calls) = 2
    /\ calls[1].origPos > calls[2].origPos

\* how many of the ranges <<start, end>> of a sequence hold offset x
RECURSIVE Holding(_, _)
Holding(ranges, x) ==
    IF ranges = <<>> THEN 0
    ELSE (IF Head(ranges)[1] <= x /\ x < Head(ranges)[2] THEN 1 ELSE 0)
         + Holding(Tail(ranges), x)

\* the referenced ranges of a table, in key order
ReferencedRanges(table) ==
    LET keys == TableKeys(table)
    IN  [k \in 1..Len(keys) |-> <<keys[k], keys[k] + table[keys[k]].origSize>>]

\* C4: partition. Once writeLLR has returned, every offset of
\* [0, originalFileSize) lies in exactly one range among the embedded gap
\* ranges and the referenced ranges, no range reaches outside the file, and
\* the origSize values plus the gap bytes stored in the LLR file add up to
\* originalFileSize.
C4_Partition ==
    LLRWritten =>
        LET gaps == embedLog
            refs == ReferencedRanges(m_table)
            tableEnd == llrLog[6].pos + llrLog[6].len
        IN  /\ \A x \in 0..(inputSize - 1) : Holding(gaps, x) + Holding(refs, x) = 1
            /\ \A i \in 1..Len(gaps) : 0 <= gaps[i][1] /\ gaps[i][1] < gaps[i][2]
                                       /\ gaps[i][2] <= inputSize
            /\ \A i \in 1..Len(refs) : refs[i][2] <= inputSize
            /\ SumSeq([i \in 1..Len(refs) |-> refs[i][2] - refs[i][1]])
                 + (Len(llrFile) - tableEnd) = inputSize
            /\ avio_rb(8, llrFile, 4) = inputSize

\* an LLR file with a leading gap, a referenced range and a trailing gap
C4_Witness ==
    /\ pc = "WriteTrailer"
    /\ Len(embedLog) = 2
    /\ \E p \in DOMAIN m_table : m_table[p].origSize > 0

\* C5: the bytes fed to the hash are at every moment the first bytes of the
\* original file, in file order; once writeLLR has returned they are the
\* whole file and the digest stored in the hash slot is the hash of the
\* original file.
C5_HashLinear ==
    /\ Len(hashCtx) <= inputSize
    /\ hashCtx = [i \in 1..Len(hashCtx) |-> ByteAt(i - 1)]
    /\ LLRWritten =>
         /\ hashCtx = OrigFile(inputSize)
         /\ ReadBytes(llrFile, wr.hashPos, wr.hashSize)
              = av_hash_final(hashName, OrigFile(inputSize))

\* writeLLR has hashed embedded bytes and referenced bytes
C5_Witness ==
    /\ pc = "WriteTrailer"
    /\ embedLog # <<>>
    /\ \E p \in DOMAIN m_table : m_table[p].origSize > 0

\* the hash name and the hash recorded in the LLR file, read off its bytes
StoredHashName(file) ==
    LET nul == SetMin({i \in 12..Len(file) : avio_r8(file, i) = 0})
    IN  Slice(file, 12, nul)

StoredHash(file) ==
    LET at == 12 + Len(StoredHashName(file)) + 1
    IN  Slice(file, at + 2, at + 2 + avio_r8(file, at) * 256 + avio_r8(file, at + 1))

\* C6: decompress returns success only if the hash of bytes
\* [0, originalFileSize) of the output file, computed with the algorithm
\* named in the LLR file, equals the hash stored in the LLR file and has its
\* length; otherwise the process ends in failure.
C6_HashGate ==
    /\ (pass = "decompress" /\ exitCode = "EXIT_SUCCESS") => pc = "Decompressed"
    /\ pc = "Decompressed" =>
         /\ exitCode = "EXIT_SUCCESS"
         /\ Len(outputFile) >= avio_rb(8, llrFile, 4)
         /\ av_hash_final(StoredHashName(llrFile),
                          Slice(outputFile, 0, avio_rb(8, llrFile, 4)))
              = StoredHash(llrFile)
         /\ Len(StoredHash(llrFile)) = av_hash_get_size(StoredHashName(llrFile))

\* a damaged pair whose hashes were compared and found different
C6_Witness ==
    /\ tampered
    /\ pc = "Failed"
    /\ err = "Hash verification failed: corrupt file"

\* C7: addPacketReference halts with the "overlapping range" error exactly
\* when the table already holds the key origPos or origPos + origSize is
\* greater than the next higher key; otherwise it returns and the table
\* holds the new row.
C7_AddOutcome ==
    lastAdd.made =>
        LET before == lastAdd.before
            sameKey == lastAdd.origPos \in DOMAIN before
            higher == {k \in DOMAIN before : k > lastAdd.origPos}
            pastNext == \E k \in higher :
                           /\ \A j \in higher : k <= j
                           /\ lastAdd.origPos + lastAdd.origSize > k
        IN  /\ lastAdd.halt <=> (sameKey \/ pastNext)
            /\ lastAdd.halt =>
                 /\ pc = "Failed"
                 /\ err = "addPacketReference: overlapping range, probably a bug. halting!"
            /\ ~lastAdd.halt =>
                 /\ lastAdd.origPos \in DOMAIN m_table
                 /\ m_table[lastAdd.origPos]
                      = [origSize |-> lastAdd.origSize, streamIndex |-> lastAdd.streamIndex,
                         packetIndex |-> lastAdd.packetIndex, pts |-> lastAdd.pts]
                 /\ err # "addPacketReference: overlapping range, probably a bug. halting!"

\* a call with a new key whose range reaches past the next higher key: it halts
C7_Witness ==
    /\ lastAdd.made
    /\ lastAdd.halt
    /\ lastAdd.origPos \notin DOMAIN lastAdd.before
    /\ pc = "Failed"

Orderings(n) == {f \in [1..n -> 1..n] : \A i, j \in 1..n : i # j => f[i] # f[j]}

\* the table after inserting rows in sequence order, and whether every call returned
RECURSIVE InsertAll(_, _)
InsertAll(rows, table) ==
    IF rows = <<>> THEN [ok |-> TRUE, table |-> table]
    ELSE LET c == Head(rows)
             r == addPacketReference(table, c.streamIndex, c.packetIndex, c.pts,
                                     c.origPos, c.origSize)
         IN  IF r.halt THEN [ok |-> FALSE, table |-> r.table]
             ELSE InsertAll(Tail(rows), r.table)

\* C8: insertion order is irrelevant. The rows accepted so far are accepted
\* in every other order too, and give the same table.
C8_OrderIrrelevant ==
    (pass = "compress" /\ pc # "Failed") =>
        \A f \in Orderings(Len(calls)) :
            LET r == InsertAll([i \in 1..Len(calls) |-> calls[f[i]]], <<>>)
            IN  r.ok /\ r.table = m_table

\* C9: layout and order of the LLR writes. The fields are written in the
\* order magic, originalFileSize, hashName, hashSize, stream table,
\* reference table, gap bytes, each starting where the previous one ended
\* but for the stream table, which starts hashSize bytes further; the digest
\* is the last write, it covers exactly those hashSize bytes and does not
\* lengthen the file; the only backward seek on the LLR file is the one
\* before the digest.
C9_Layout ==
    /\ \A i \in 1..Len(llrLog) : llrLog[i].field = "hashBuffer" => i = Len(llrLog)
    /\ LLRWritten =>
         LET n == Len(llrLog)
             fields == [i \in 1..n |-> llrLog[i].field]
             endOf(i) == llrLog[i].pos + llrLog[i].len
             hashSize == av_hash_get_size(hashName)
             backward == {i \in 1..Len(llrSeeks) : llrSeeks[i].to < llrSeeks[i].from}
         IN  /\ n \in {7, 8}
             /\ SubSeq(fields, 1, 6) = <<"magic", "originalFileSize", "hashName",
                                         "hashSize", "streams", "table">>
             /\ n = 8 => fields[7] = "gap"
             /\ fields[n] = "hashBuffer"
             /\ llrLog[1].pos = 0
             /\ \A i \in 2..(n - 1) :
                  llrLog[i].pos = endOf(i - 1) + (IF i = 5 THEN hashSize ELSE 0)
             /\ llrLog[n].pos = endOf(4)
             /\ llrLog[n].len = hashSize
             /\ Len(llrFile) = endOf(n - 1)
             /\ backward = {Len(llrSeeks)}
             /\ llrSeeks[Len(llrSeeks)].to = endOf(4)
             /\ llrSeeks[Len(llrSeeks)].from = endOf(n - 1)

\* a finished LLR file with gap bytes after the tables
C9_Witness ==
    /\ pc = "WriteTrailer"
    /\ Len(llrLog) = 8
    /\ DOMAIN m_table # {}

IsPrefix(s, t) == Len(s) <= Len(t) /\ s = SubSeq(t, 1, Len(s))

\* C10: gap restoration. The gap ranges readLLR loads are, in order, the gap
\* ranges writeLLR embedded; readLLR writes no byte inside a referenced
\* range; once readLLR has returned, every offset of every gap range of the
\* output file holds the original file's byte.
C10_GapsRestored ==
    pass = "decompress" =>
        /\ IsPrefix(loadLog, embedLog)
        /\ \A i \in 1..Len(outLog) : \A p \in DOMAIN packetRefs.table :
             outLog[i].by = "readLLR" =>
                \/ outLog[i].pos + outLog[i].len <= p
                \/ p + packetRefs.table[p].origSize <= outLog[i].pos
        /\ pc \notin {"readLLR_for", "loadChunk", "Failed"} =>
             /\ loadLog = embedLog
             /\ \A i \in 1..Len(embedLog) :
                  \A x \in embedLog[i][1]..(embedLog[i][2] - 1) :
                     x < Len(outputFile) /\ outputFile[x + 1] = ByteAt(x)

\* readLLR has returned after loading two gaps around a referenced range
C10_Witness ==
    /\ pc = "readLLR_return"
    /\ Len(loadLog) = 2
    /\ \E p \in DOMAIN packetRefs.table : packetRefs.table[p].origSize > 0

\* the candidates of the advertised list that are lossless both ways, by position
Qualifying ==
    {k \in 1..Len(pix_fmts.list) :
        /\ av_get_pix_fmt_loss(pix_fmts.list[k], pix_fmt, FALSE) = {}
        /\ av_get_pix_fmt_loss(pix_fmt, pix_fmts.list[k], TRUE) = {}}

\* the encoders whose constructor called the selector
VideoEncoders == {i \in 1..Len(m_outputPixFmt) : m_streams[i].type = Video}

\* C12: the pixel format selectCompatibleLosslessPixelFormat returns is the
\* first candidate, in list order, whose forward and inverse loss scores
\* against the source format are both zero.
C12_FirstLossless ==
    \A i \in VideoEncoders :
        m_outputPixFmt[i] # AV_PIX_FMT_NONE =>
            /\ Qualifying # {}
            /\ m_outputPixFmt[i] = pix_fmts.list[SetMin(Qualifying)]

\* C13: a pixel format selectCompatibleLosslessPixelFormat returns is one of
\* the candidates and its forward and inverse loss scores against the source
\* format are both zero; when no candidate qualifies (the list may be empty
\* or null) the process halts with the selector's error and no format is
\* returned; it halts with that error in no other case.
C13_SelectorSafe ==
    /\ \A i \in VideoEncoders :
         /\ m_outputPixFmt[i] # AV_PIX_FMT_NONE =>
              \E k \in Qualifying : m_outputPixFmt[i] = pix_fmts.list[k]
         /\ Qualifying = {} =>
              /\ m_outputPixFmt[i] = AV_PIX_FMT_NONE
              /\ pc = "Failed"
              /\ err = "selectCompatibleLosslessPixelFormat: failed to select output pixel format"
    /\ err = "selectCompatibleLosslessPixelFormat: failed to select output pixel format"
         => VideoEncoders # {} /\ Qualifying = {} /\ pc = "Failed"

\* a format was returned from a list that also holds a candidate that is
\* lossless in the forward direction only
C13_Witness ==
    /\ pc = "ReadLoop"
    /\ \E i \in VideoEncoders : m_outputPixFmt[i] # AV_PIX_FMT_NONE
    /\ \E k \in 1..Len(pix_fmts.list) :
         /\ av_get_pix_fmt_loss(pix_fmts.list[k], pix_fmt, FALSE) = {}
         /\ av_get_pix_fmt_loss(pix_fmt, pix_fmts.list[k], TRUE) # {}

RowTriple(p) == <<m_table[p].streamIndex, m_table[p].packetIndex, m_table[p].pts>>

\* the identity of the i-th packet handed to the muxer: its stream, its rank
\* among the packets of that stream, its pts
MuxedTriple(i) ==
    <<muxed[i].stream_index,
      Cardinality({j \in 1..(i - 1) : muxed[j].stream_index = muxed[i].stream_index}),
      muxed[i].pts>>

ProcessedBy(s) == SelectSeq(calls, LAMBDA c : c.streamIndex = s - 1)

\* the table keys of the rows of encoder s
RowsOf(s) == {p \in DOMAIN m_table : m_table[p].streamIndex = s - 1}

\* C15: after encoder s has processed n input packets without error, the
\* table holds exactly n rows with its stream index, their packetIndex values
\* are exactly 0..n-1, the encoder's counter is n, and when the packets came
\* in increasing pos order packetIndex increases with origPos.
C15_PacketIndex ==
    ((pass = "compress" /\ pc # "Failed") \/ CompressSucceeded) =>
        \A s \in 1..Len(m_outPacketIndex) :
            LET n == Len(ProcessedBy(s))
            IN  /\ Cardinality(RowsOf(s)) = n
                /\ {m_table[p].packetIndex : p \in RowsOf(s)} = 0..(n - 1)
                /\ m_outPacketIndex[s] = n
                /\ (\A i \in 1..(n - 1) :
                       ProcessedBy(s)[i].origPos < ProcessedBy(s)[i + 1].origPos)
                     => \A p, q \in RowsOf(s) :
                           p < q => m_table[p].packetIndex < m_table[q].packetIndex

\* an encoder that processed two packets in increasing pos order, beside a
\* second encoder that processed none
C15_Witness ==
    /\ pc = "writeLLR"
    /\ Len(m_outPacketIndex) = 2
    /\ Len(ProcessedBy(1)) = 2
    /\ ProcessedBy(1)[1].origPos < ProcessedBy(1)[2].origPos


\* the decode loop takes a packet of stream s from the compressed container
ReadsPacketOf(s) == pc = "DecodeLoop" /\ mkvRead'[s] # mkvRead[s]

\* the packet of stream s the decode loop takes next, and its lookup key
NextPacket(s) == StreamPackets(s - 1)[mkvRead[s] + 1]

NextKey(s) == <<NextPacket(s).stream_index, packetIndexPerStream[s], NextPacket(s).pts>>

C16_Step ==
    \A s \in 1..nb_streams :
        ReadsPacketOf(s) =>
            IF NextKey(s) \notin DOMAIN reverseRefs
            THEN /\ pc' = "Failed"
                 /\ err' = "Failed to find destination block"
                 /\ decoders' = decoders
                 /\ outputFile' = outputFile
                 /\ outLog' = outLog
                 /\ reverseRefs' = reverseRefs
            ELSE err' # "Failed to find destination block"

\* C16: a packet read during decompression whose (streamIndex, per-stream
\* packetIndex, pts) is not a key of the reverse index ends the process with
\* "Failed to find destination block"; no decoder is handed the packet and
\* the output file is left as it was; a packet whose key is present never
\* ends with that message.
C16_NoDestination == [][C16_Step]_vars

\* a pair damaged between the passes, where a packet's key was not found
C16_Witness ==
    /\ tampered
    /\ pc = "Failed"
    /\ err = "Failed to find destination block"
    /\ \E s \in 1..nb_streams : decoders[s].sent < mkvRead[s]

\* every stream of the compressed container has been read to its end
ContainerAtEOF ==
    /\ mkvRead # <<>>
    /\ \A s \in 1..nb_streams : mkvRead[s] = Len(StreamPackets(s - 1))

\* C17: the decode loop is left for hash verification only with an empty
\* reverse index; when the container is at EOF and the reverse index still
\* holds an entry, decompress ends with "One or more source packets are
\* missing", before verifyHash has read a byte, and never returns success.
C17_MissingPackets ==
    /\ (pass = "decompress" /\ (pc \in {"verifyHash", "Decompressed"}
                                \/ exitCode = "EXIT_SUCCESS"))
           => DOMAIN reverseRefs = {}
    /\ err = "One or more source packets are missing"
           => /\ pc = "Failed"
              /\ exitCode # "EXIT_SUCCESS"
              /\ ContainerAtEOF
              /\ DOMAIN reverseRefs # {}
              /\ vh = [pos |-> 0, fed |-> <<>>]
    /\ (pc = "Failed" /\ ContainerAtEOF /\ DOMAIN reverseRefs # {}
        /\ err \notin {"Failed to find destination block",
                       "Decoded to a different size than expected"})
           => err = "One or more source packets are missing"

\* a container that lost a packet, read to its end with the packet's range
\* still in the reverse index, although the output written so far is what
\* the stored hash was computed from
C17_Witness ==
    /\ damage = "dropped"
    /\ err = "One or more source packets are missing"
    /\ outLog # <<>>

C18_Step ==
    \A s \in 1..nb_streams :
        (ReadsPacketOf(s) /\ NextKey(s) \in DOMAIN reverseRefs) =>
            LET origPos == reverseRefs[NextKey(s)][1]
                origSize == reverseRefs[NextKey(s)][2]
                data == decodePacket(decoders[s], NextPacket(s).data)
            IN  IF Len(data) # origSize
                THEN /\ pc' = "Failed"
                     /\ err' = "Decoded to a different size than expected"
                     /\ outputFile' = outputFile
                     /\ outLog' = outLog
                ELSE /\ pc' = "DecodeLoop"
                     /\ outputFile' = WriteAt(outputFile, origPos, data)
                     /\ outLog' = IF origSize = 0 THEN outLog
                                  ELSE Append(outLog, [by |-> "packet", pos |-> origPos,
                                                       len |-> origSize])

\* C18: when the decoded length of a packet differs from the origSize of the
\* reverse-index entry it matched, the process ends fatally and the output
\* file is left as it was; otherwise the one write made for the packet
\* covers exactly [origPos, origPos + origSize).
C18_SizeChecked == [][C18_Step]_vars

\* a pair damaged between the passes, where a packet decoded to another size
\* than its entry records, after an earlier packet had been written
C18_Witness ==
    /\ tampered
    /\ pc = "Failed"
    /\ err = "Decoded to a different size than expected"
    /\ \E i \in 1..Len(outLog) : outLog[i].by = "packet"

\* the errors that end decompress() inside readLLR
ReadLLRErrors ==
    {"Invalid LLR file signature", "abort", "avio_read_partial",
     "avio_read_partial: Premature end of file"}

\* C19: decoders exist and packets are read only when the LLR file holds as
\* many stream rows as the compressed container holds streams; with any
\* other number a readLLR that returns is followed by "Stream count
\* mismatch", with no decoder built and no packet read.
C19_StreamCount ==
    /\ (pass = "decompress" /\ (decoders # <<>> \/ mkvRead # <<>>
                                \/ pc \in {"DecodeLoop", "verifyHash", "Decompressed"}))
           => Len(packetRefs.streams) = nb_streams
    /\ err = "Stream count mismatch"
           => /\ pc = "Failed"
              /\ exitCode # "EXIT_SUCCESS"
              /\ Len(packetRefs.streams) # nb_streams
              /\ decoders = <<>>
              /\ mkvRead = <<>>
    /\ (pass = "decompress" /\ pc = "Failed" /\ Len(packetRefs.streams) # nb_streams)
           => err \in {"Stream count mismatch"} \cup ReadLLRErrors

\* an LLR file with one stream row too many, refused after readLLR
C19_Witness ==
    /\ err = "Stream count mismatch"
    /\ Len(packetRefs.streams) > nb_streams


\* the original file had bytes outside every referenced range, which the
\* LLR file carries
LLRCarriesGaps == \E i \in 1..Len(llrLog) : llrLog[i].field = "gap"

\* C20 as stated: after the LLR file lost its last byte, decompress writes
\* nothing to the output file and does not succeed.
C20_TruncatedAnywhere ==
    (damage = "truncated" /\ pass = "decompress")
        => /\ outLog = <<>>
           /\ outputFile = <<>>
           /\ pc # "Decompressed"
           /\ exitCode # "EXIT_SUCCESS"

\* C20: after the LLR file lost a byte inside the hash slot (one byte of the
\* stored hash removed, or the file ending inside the stored hash),
\* decompress never leaves readLLR and its stream count check: it ends with
\* an error of readLLR or with "Stream count mismatch", and not one byte has
\* been written to the output file; with one byte of the stored hash
\* removed it ends inside deserialize, before readLLR loads a chunk.
C20_HashSlotDamaged ==
    (damage \in {"cut", "cutoff"} /\ pass = "decompress")
        => /\ outLog = <<>>
           /\ outputFile = <<>>
           /\ exitCode # "EXIT_SUCCESS"
           /\ decoders = <<>>
           /\ pc \in {"readLLR_for", "loadChunk", "readLLR_return", "Failed"}
           /\ pc = "Failed" => err \in ReadLLRErrors \cup {"Stream count mismatch"}
           /\ pc # "Failed" => ENABLED Decompress
           /\ damage = "cut" => (pc = "Failed" /\ err = "abort" /\ loadLog = <<>>)

\* an LLR file that carries gap bytes and lost one byte of its stored hash:
\* deserialize stopped at an unknown stream type
C20_Witness ==
    /\ damage = "cut"
    /\ pass = "decompress"
    /\ pc = "Failed"
    /\ err = "abort"
    /\ LLRCarriesGaps


\* C21: every avio_write call made on the output file during decompression,
\* by readLLR for gap bytes or by decompress for packet bytes, writes at most
\* max_packet_size bytes.
C21_WritesBounded ==
    pass = "decompress" => \A w \in avioWrites : w.size <= max_packet_size


\* C22: when the command-line parser has diagnosed an argument error,
\* neither compress nor decompress is entered: the process has exited with
\* failure.
C22_ArgumentErrorsFatal ==
    /\ pc \in {"main", "main_compress", "main_decompress"} => cli.warned = {}
    /\ (pc = "Exited" /\ cli.warned # {}) => exitCode = "EXIT_FAILURE"


\* the packets of output stream s handed to the muxer so far
MuxedOf(s) == Len(StreamPackets(s))

C23_Step ==
    /\ m_table' # m_table =>
          /\ pc = "addPacketReference"
          /\ muxed' = muxed
          /\ m_outPacketIndex' = m_outPacketIndex
          /\ MuxedOf(cur.s - 1) = m_outPacketIndex[cur.s]
          /\ cur.out.stream_index = cur.s - 1
          /\ cur.out.pts = Rescale(PacketPts(cur.pos))
          /\ lastAdd'.packetIndex = m_outPacketIndex[cur.s]
          /\ pc' = "Failed" \/ pc' = "av_interleaved_write_frame"
    /\ muxed' # muxed =>
          /\ pc = "av_interleaved_write_frame"
          /\ muxed' = Append(muxed, cur.out)
          /\ cur.pos \in DOMAIN m_table
          /\ m_table[cur.pos] = [origSize |-> cur.size, streamIndex |-> cur.s - 1,
                                 packetIndex |-> m_outPacketIndex[cur.s],
                                 pts |-> cur.out.pts]
          /\ m_table' = m_table
          /\ m_outPacketIndex' = m_outPacketIndex
          /\ pc' = "m_outPacketIndex++"
    /\ (m_outPacketIndex' # m_outPacketIndex /\ pc # "NewEncoders") =>
          /\ pc = "m_outPacketIndex++"
          /\ muxed # <<>> /\ muxed[Len(muxed)] = cur.out
          /\ m_outPacketIndex' = [m_outPacketIndex EXCEPT ![cur.s] = @ + 1]
          /\ muxed' = muxed
          /\ m_table' = m_table
    /\ (pc = "addPacketReference" /\ pc' = "Failed") =>
          /\ muxed' = muxed
          /\ m_outPacketIndex' = m_outPacketIndex

\* after a fatal addPacketReference the muxer holds the packets of the calls
\* that returned and no other
C23_Halted ==
    err = "addPacketReference: overlapping range, probably a bug. halting!"
        => /\ Len(muxed) = Len(calls)
           /\ lastAdd.halt
           /\ \A s \in 1..Len(m_outPacketIndex) : MuxedOf(s - 1) = m_outPacketIndex[s]

\* C23: for every packet an encoder emits, addPacketReference is called with
\* the timestamps and stream index already set and with the counter as it
\* stands; the packet reaches the muxer only afterwards, with its row in the
\* table; the counter is incremented last; a fatal addPacketReference leaves
\* the muxer and the counter as they were.
C23_EffectOrder == [][C23_Step]_vars /\ []C23_Halted

\* the second packet of a stream has gone through its three steps
C23_Witness ==
    /\ pc = "ReadLoop"
    /\ cur # NoCall
    /\ m_outPacketIndex[cur.s] = 2
    /\ muxed[Len(muxed)] = cur.out


\* no processPacket call is under way
NoCallUnderWay ==
    pc \notin {"addPacketReference", "av_interleaved_write_frame", "m_outPacketIndex++",
               "Failed"}

\* C24: when processPacket calls have returned, each has handed one packet
\* to the muxer and added one row to the table; the row of the call that
\* returned last is keyed by the pos of the input packet of that call and
\* carries its size, and the packet handed over last is that call's.
C24_OnePacketOneRow ==
    NoCallUnderWay =>
        /\ Len(muxed) = nread
        /\ Cardinality(DOMAIN m_table) = Len(muxed)
        /\ cur # NoCall =>
              /\ cur.pos \in DOMAIN m_table
              /\ m_table[cur.pos].origSize = cur.size
              /\ m_table[cur.pos].streamIndex = cur.s - 1
              /\ muxed[Len(muxed)] = cur.out

\* two calls have returned, the later one for a video packet
C24_Witness ==
    /\ pc = "ReadLoop"
    /\ nread = 2
    /\ cur # NoCall
    /\ m_streams[cur.s].type = Video
    /\ cur.size > 0


\* C25: once every encoder is set up the table has one stream row per input
\* stream, in the order of the input streams; the row of a rawvideo stream
\* is Video and names the pixel format of the input stream, the row of any
\* other stream is Copy, and the row's position is the index of the output
\* stream created for that input stream.
C25_StreamRows ==
    pc = "ReadLoop" =>
        /\ Len(m_streams) = Len(inStreams)
        /\ Len(m_outputStream) = Len(inStreams)
        /\ \A i \in 1..Len(inStreams) :
             /\ inStreams[i] = "rawvideo" =>
                   m_streams[i] = [type |-> Video,
                                   pixelFormat |-> av_get_pix_fmt_name(pix_fmt)]
             /\ inStreams[i] # "rawvideo" => m_streams[i].type = Copy
             /\ m_outputStream[i] = i - 1

\* setup is over for a video and an audio stream, the codec having been given
\* a pixel format other than the input's
C25_Witness ==
    /\ pc = "ReadLoop"
    /\ Len(m_streams) = 2
    /\ m_streams[1].type = Video
    /\ m_streams[2].type = Copy
    /\ m_outputPixFmt[1] # pix_fmt


\* control is inside writeLLR
InWriteLLR == pc \in {"writeLLR", "writeLLR_for", "embedChunk", "hashChunk", "writeLLR_hash"}

\* the statements of writeLLR that have written a magic number
LLRStarts == {i \in 1..Len(llrLog) : llrLog[i].field = "magic"}

C26_Step ==
    pass = "compress" =>
        \* stream rows are appended only before the header
        /\ m_streams' # m_streams => pc = "NewEncoders"
        \* the header is written when every row is there
        /\ (pc = "NewEncoders" /\ pc' \notin {"NewEncoders", "Failed"}) =>
              (pc' = "ReadLoop" /\ Len(m_streams) = Len(inStreams))
        \* packets are dispatched after the header and before writeLLR
        /\ (nread' # nread \/ muxed' # muxed \/ m_table' # m_table) =>
              (pc = "ReadLoop" /\ llrLog = <<>>)
        \* writeLLR starts when the read loop ends and has not run before
        /\ (InWriteLLR' /\ ~InWriteLLR) => (pc = "ReadLoop" /\ llrLog = <<>>)
        /\ (InWriteLLR /\ ~InWriteLLR' /\ pc' # "Failed") => pc' = "WriteTrailer"
        \* the trailer is written when writeLLR has stored the hash
        /\ (pc = "WriteTrailer" /\ pc' # pc) =>
              /\ pc' = "Compressed"
              /\ llrLog # <<>>
              /\ llrLog[Len(llrLog)].field = "hashBuffer"

\* C26: a compression pass appends every stream row, then writes the muxer
\* header, then dispatches the input packets until EOF, then runs writeLLR
\* once, and only then writes the trailer: no packet is dispatched before
\* the header or once writeLLR has started.
C26_PassOrder ==
    /\ [][C26_Step]_vars
    /\ [](pc = "Compressed" => Cardinality(LLRStarts) = 1)

\* a pass over two streams and two packets has written its trailer
C26_Witness ==
    /\ pc = "Compressed"
    /\ pass = "compress"
    /\ Len(m_streams) = 2
    /\ nread = 2
    /\ llrLog # <<>>


\* the streams of which decompress() reads a packet in this step
ReadIn == {s \in DOMAIN mkvRead : mkvRead'[s] = mkvRead[s] + 1}

C27_Step ==
    (pc = "DecodeLoop" /\ mkvRead' # mkvRead) =>
        \A s \in DOMAIN mkvRead :
            IF s \in ReadIn
            THEN packetIndexPerStream'[s] = packetIndexPerStream[s] + 1
            ELSE packetIndexPerStream'[s] = packetIndexPerStream[s]

\* the key decompress() looks up for the next packet of every stream is the
\* one compress() registered for that packet
C27_Key ==
    pc = "DecodeLoop" =>
        \A s \in DOMAIN mkvRead :
            /\ packetIndexPerStream[s] = mkvRead[s]
            /\ mkvRead[s] < Len(StreamPackets(s - 1)) =>
                  LET c == ProcessedBy(s)[mkvRead[s] + 1]
                  IN  <<NextPacket(s).stream_index, packetIndexPerStream[s],
                        NextPacket(s).pts>>
                          = <<c.streamIndex, c.packetIndex, c.pts>>

\* C27: in decompress() the packetIndex of a packet of stream s is the
\* number of packets of s read before it; the counter of s advances by one
\* per packet of s and not with packets of other streams, so the key looked
\* up is the (streamIndex, packetIndex, pts) registered at compression.
C27_PacketIndex == [][C27_Step]_vars /\ []C27_Key

\* a packet of each of two streams has been read
C27_Witness ==
    /\ pc = "DecodeLoop"
    /\ DOMAIN mkvRead = 1..2
    /\ mkvRead[1] = 1
    /\ mkvRead[2] = 1
    /\ packetIndexPerStream = <<1, 1>>


\* the writes to the output file that cover offset o
Covering(o) == {i \in 1..Len(outLog) : outLog[i].pos <= o /\ o < outLog[i].pos + outLog[i].len}

\* decompress() has reached verifyHash or gone through it
ReachedVerifyHash == pass = "decompress" /\ pc \in {"verifyHash", "Decompressed"}

\* C28: when a decompress run reaches the hash verification, every offset of
\* [0, originalFileSize) of the output file has been written exactly once, by
\* readLLR as a gap byte or by one packet write.
C28_WrittenOnce ==
    ReachedVerifyHash =>
        \A o \in 0..(info.originalFileSize - 1) : Cardinality(Covering(o)) = 1


\* C29: deserialize applied to what serialize wrote for R yields the stream
\* rows of R in the same order and the table rows of R, and reads exactly
\* the bytes serialize wrote, whenever the pixel format names of R are
\* shorter than 128 bytes.
C29_SerializeRoundTrip ==
    (/\ pc \in {"deserialized", "Failed"}
     /\ \A i \in 1..Len(m_streams) : Len(m_streams[i].pixelFormat) < 128)
        => /\ pc = "deserialized"
           /\ packetRefs.streams = m_streams
           /\ packetRefs.table = m_table
           /\ rd.llrPos = Len(llrFile)


\* C30: writeInChunks(s, buf, size) returns, whatever size >= 0 and the
\* sink's max_packet_size are, and has then written the size bytes of buf in
\* order.
C30_Terminates == <>(pc = "returned" /\ wic.written = wic.buf)

====
